---- MODULE Spec2Model ----
(***************************************************************************)
(* Date-planning dialog orchestrator: the DialogAgent conversation state   *)
(* machine (dialog_agent.py), the two places it keeps conversations (the   *)
(* agent's conversation_memory and the ConversationManager's ContextStore),*)
(* the mock venue catalog and the SchedulePlanner it delegates to.         *)
(*                                                                         *)
(* Python strings are modelled as sequences of tokens (morphemes), so that *)
(* `x in s`, str.startswith and str.strip are computed on the text and not *)
(* assumed.  Optional values are sets with at most one element: None is {} *)
(* and a present value v is {v}.  Python dicts are functions whose DOMAIN  *)
(* is the set of keys present.                                             *)
(***************************************************************************)
EXTENDS Integers, Sequences, FiniteSets, TLC

\* Korean text is written in Revised Romanization, one token per morpheme:
\* "Seoul" is the token of the source's "서울", "munhwajae" of "문화재" (cultural
\* site), "kape" of "카페" (cafe), and so on.

\* ------------------------------------------------------------------ bounds
MaxTurns == 8

\* ------------------------------------------------------- optional values
None == {}
Some(v) == {v}
The(o) == CHOOSE v \in o : TRUE

\* ------------------------------------------------------------ str helpers
\* Python `needle in hay` on strings: needle is a contiguous part of hay.
Contains(hay, needle) ==
    \E i \in 0..(Len(hay) - Len(needle)) : SubSeq(hay, i + 1, i + Len(needle)) = needle

\* Python hay.startswith(prefix).
StartsWith(hay, prefix) ==
    Len(prefix) <= Len(hay) /\ SubSeq(hay, 1, Len(prefix)) = prefix

\* Python s.strip(): leading and trailing whitespace removed.
RECURSIVE LStrip(_)
LStrip(s) == IF s /= <<>> /\ Head(s) = " " THEN LStrip(Tail(s)) ELSE s

RECURSIVE RStrip(_)
RStrip(s) == IF s /= <<>> /\ s[Len(s)] = " " THEN RStrip(SubSeq(s, 1, Len(s) - 1)) ELSE s

Strip(s) == RStrip(LStrip(s))

\* Python truthiness of an Optional[str]: None and "" are falsy.
TruthyStr(o) == o /= None /\ The(o) /= <<>>

\* Python truthiness of an Optional[float]: None and 0.0 are falsy.
TruthyNum(o) == o /= None /\ The(o) /= 0

\* ------------------------------------------------------------ enumerations
ConversationState ==
    {"INITIAL_PLANNING", "AWAITING_USER_SELECTION", "PLANNING_IN_PROGRESS",
     "PRESENTING_RESULTS", "AWAITING_FEEDBACK", "HANDLING_QUESTIONS",
     "MODIFYING_PLAN", "PLAN_CONFIRMED"}

InteractionType ==
    {"INITIAL_QUERY", "SELECTION_REQUIRED", "CLARIFICATION_NEEDED",
     "INFORMATION_REQUEST", "PLAN_MODIFICATION", "GENERAL_QUESTION", "CONFIRMATION"}

\* ------------------------------------------------------------ venue catalog
\* TouristSpotResearcher._load_sample_spots: the seven sample venues, in the
\* order of the list.  Coordinates are in 1/10000 degree, ratings in tenths.
sample_spots ==
    << [id |-> <<"seoul", "_", "001">>, name |-> <<"Gyeongbokgung">>, category |-> "munhwajae",
        loc_name |-> <<"Gyeongbokgung">>, lat |-> 375796, lng |-> 1269770,
        address |-> <<"Seoul", "teukbyeolsi", " ", "Jongno-gu", " ", "Sajik-ro", " ", "161">>,
        rating |-> 45, estimated_duration |-> 120, estimated_cost |-> 3000],
       [id |-> <<"seoul", "_", "002">>, name |-> <<"Changdeokgung">>, category |-> "munhwajae",
        loc_name |-> <<"Changdeokgung">>, lat |-> 375794, lng |-> 1269910,
        address |-> <<"Seoul", "teukbyeolsi", " ", "Jongno-gu", " ", "Yulgok-ro", " ", "99">>,
        rating |-> 46, estimated_duration |-> 150, estimated_cost |-> 3000],
       [id |-> <<"seoul", "_", "003">>, name |-> <<"Insadong", " ", "jeontongchatjip", " ", "geori">>,
        category |-> "kape",
        loc_name |-> <<"Insadong">>, lat |-> 375717, lng |-> 1269852,
        address |-> <<"Seoul", "teukbyeolsi", " ", "Jongno-gu", " ", "Insadong", "gil">>,
        rating |-> 42, estimated_duration |-> 90, estimated_cost |-> 15000],
       [id |-> <<"seoul", "_", "004">>, name |-> <<"Hongdae", " ", "kape", "geori">>,
        category |-> "kape",
        loc_name |-> <<"Hongdae">>, lat |-> 375563, lng |-> 1269236,
        address |-> <<"Seoul", "teukbyeolsi", " ", "Mapo-gu", " ", "Hongik-ro">>,
        rating |-> 40, estimated_duration |-> 120, estimated_cost |-> 12000],
       [id |-> <<"seoul", "_", "005">>, name |-> <<"Gungnipjungangbangmulgwan">>, category |-> "bangmulgwan",
        loc_name |-> <<"Gungnipjungangbangmulgwan">>, lat |-> 375240, lng |-> 1269803,
        address |-> <<"Seoul", "teukbyeolsi", " ", "Yongsan-gu", " ", "Seobinggo-ro", " ", "137">>,
        rating |-> 44, estimated_duration |-> 180, estimated_cost |-> 0],
       [id |-> <<"busan", "_", "001">>, name |-> <<"Haedongyonggungsa">>, category |-> "munhwajae",
        loc_name |-> <<"Haedongyonggungsa">>, lat |-> 351882, lng |-> 1292233,
        address |-> <<"Busan", "gwangyeoksi", " ", "Gijang-gun", " ", "Gijang-eup", " ", "Yonggung-gil", " ", "86">>,
        rating |-> 43, estimated_duration |-> 90, estimated_cost |-> 0],
       [id |-> <<"busan", "_", "002">>, name |-> <<"Gamcheonmunhwamaeul">>, category |-> "munhwajae",
        loc_name |-> <<"Gamcheonmunhwamaeul">>, lat |-> 350975, lng |-> 1290106,
        address |-> <<"Busan", "gwangyeoksi", " ", "Saha-gu", " ", "Gamnae2-ro", " ", "203">>,
        rating |-> 41, estimated_duration |-> 120, estimated_cost |-> 5000] >>

\* TouristSpot objects a caller of the planner builds itself, as the planner's
\* unit tests do: three day-long visits, free of charge, at the palace gate.
caller_spots ==
    << [id |-> <<"test", "_", "001">>, name |-> <<"teseuteu", " ", "1">>, category |-> "gongwon",
        loc_name |-> <<"teseuteu", "1">>, lat |-> 375796, lng |-> 1269770, address |-> <<>>,
        rating |-> 45, estimated_duration |-> 600, estimated_cost |-> 0],
       [id |-> <<"test", "_", "002">>, name |-> <<"teseuteu", " ", "2">>, category |-> "gongwon",
        loc_name |-> <<"teseuteu", "2">>, lat |-> 375796, lng |-> 1269770, address |-> <<>>,
        rating |-> 44, estimated_duration |-> 600, estimated_cost |-> 0],
       [id |-> <<"test", "_", "003">>, name |-> <<"teseuteu", " ", "3">>, category |-> "gongwon",
        loc_name |-> <<"teseuteu", "3">>, lat |-> 375796, lng |-> 1269770, address |-> <<>>,
        rating |-> 43, estimated_duration |-> 600, estimated_cost |-> 0] >>

\* A stored TouristSpot is a reference to a catalog entry, its index in
\* sample_spots, or to a caller's spot, numbered after the catalog.
SpotRefs == 1..Len(sample_spots)
Spot(ref) == IF ref \in SpotRefs THEN sample_spots[ref] ELSE caller_spots[ref - Len(sample_spots)]

\* --------------------------------------------------------- Python floats
\* A budget is a Python number that may be float('inf'); inf // 3 is nan, and
\* every comparison with nan is False.
Num(n) == <<"num", n>>
Inf == <<"inf", 0>>
NaN == <<"nan", 0>>

\* Python `b // d` for d > 0.
FloorDiv(b, d) == IF b[1] = "num" THEN Num(b[2] \div d) ELSE NaN

\* Python `n <= b` for an int n.
LeqNum(n, b) == (b[1] = "inf") \/ (b[1] = "num" /\ n <= b[2])

\* TouristSpot.is_within_budget
is_within_budget(ref, budget) == LeqNum(Spot(ref).estimated_cost, budget)

\* TouristSpotResearcher._filter_by_location
filter_by_location(refs, location) ==
    SelectSeq(refs, LAMBDA r :
        \/ Contains(Spot(r).loc_name, location)
        \/ Contains(Spot(r).address, location)
        \/ Contains(Spot(r).id, location))

\* The category_map of _filter_by_categories: the labels it knows.
category_map == {"munhwajae", "kape", "restorang", "bangmulgwan", "gongwon", "syoping", "jeonmangdae"}

\* TouristSpotResearcher._filter_by_categories
filter_by_categories(refs, categories) ==
    LET target_categories == categories \cap category_map
    IN IF target_categories = {} THEN refs
       ELSE SelectSeq(refs, LAMBDA r : Spot(r).category \in target_categories)

\* TouristSpotResearcher._filter_by_budget
filter_by_budget(refs, budget_per_spot) ==
    SelectSeq(refs, LAMBDA r : is_within_budget(r, budget_per_spot))

\* sorted(..., key=rating, reverse=True): a stable sort, so venues of equal
\* rating keep their order.
RECURSIVE InsertByRating(_, _)
InsertByRating(sorted, r) ==
    IF sorted = <<>> THEN <<r>>
    ELSE IF Spot(Head(sorted)).rating >= Spot(r).rating
         THEN <<Head(sorted)>> \o InsertByRating(Tail(sorted), r)
         ELSE <<r>> \o sorted

RECURSIVE SortByRating(_)
SortByRating(refs) ==
    IF refs = <<>> THEN <<>>
    ELSE InsertByRating(SortByRating(SubSeq(refs, 1, Len(refs) - 1)), refs[Len(refs)])

max_results == 10

Min(a, b) == IF a < b THEN a ELSE b

\* seq[:n]
Take(seq, n) == SubSeq(seq, 1, Min(n, Len(seq)))

\* search_spots, `if categories:` (lines 25-26)
search_by_categories(refs, categories) ==
    IF categories /= {} THEN filter_by_categories(refs, categories) ELSE refs

\* search_spots, `if budget_per_spot:` (lines 29-30)
search_by_budget(refs, budget) ==
    IF budget /= 0 THEN filter_by_budget(refs, Num(budget)) ELSE refs

\* TouristSpotResearcher.search_spots (through SuperAgent.search_spots)
search_spots(location, interests, budget) ==
    Take(SortByRating(
             search_by_budget(
                 search_by_categories(
                     filter_by_location([i \in SpotRefs |-> i], location), interests),
                 budget)),
         max_results)


\* ------------------------------------------------------------ python dicts
\* d.get(key, default)
Get(d, key, default) == IF key \in DOMAIN d THEN d[key] ELSE default

\* ------------------------------------------------------- schedule planner
\* SchedulePlanner._calculate_spot_score, in thousandths.
calculate_spot_score(ref, preferences) ==
    LET sp == Spot(ref)
        interests == Get(preferences, "interests", {})
    IN  sp.rating * 8
        + (IF sp.category \in interests THEN 300 ELSE 0)
        + (IF sp.estimated_cost = 0 THEN 200
           ELSE IF sp.estimated_cost < 10000 THEN 150
           ELSE IF sp.estimated_cost < 30000 THEN 100 ELSE 0)
        + (IF 60 <= sp.estimated_duration /\ sp.estimated_duration <= 180 THEN 100 ELSE 0)

\* scored_spots.sort(key=score, reverse=True): stable.
RECURSIVE InsertByScore(_, _, _)
InsertByScore(sorted, r, preferences) ==
    IF sorted = <<>> THEN <<r>>
    ELSE IF calculate_spot_score(Head(sorted), preferences) >= calculate_spot_score(r, preferences)
         THEN <<Head(sorted)>> \o InsertByScore(Tail(sorted), r, preferences)
         ELSE <<r>> \o sorted

RECURSIVE SortByScore(_, _)
SortByScore(refs, preferences) ==
    IF refs = <<>> THEN <<>>
    ELSE InsertByScore(SortByScore(SubSeq(refs, 1, Len(refs) - 1), preferences),
                       refs[Len(refs)], preferences)

\* A choice of spots that takes the first five affordable ones as they come.
optimize_spots_takes_the_first(spots, budget, preferences) ==
    Take(SelectSeq(spots, LAMBDA r : is_within_budget(r, FloorDiv(budget, 3))), 5)

\* SchedulePlanner._optimize_spots
optimize_spots(spots, budget, preferences) ==
    LET affordable_spots == SelectSeq(spots, LAMBDA r : is_within_budget(r, FloorDiv(budget, 3)))
    IN Take(SortByScore(affordable_spots, preferences), 5)

\* Location.distance_to, squared and in (1/10000 degree)^2: the distance in km
\* is 111 * sqrt(DistSq) / 10000, so distances compare as their DistSq do.
Abs(n) == IF n < 0 THEN -n ELSE n
DistSq(a, b) ==
    LET lat_diff == Abs(Spot(a).lat - Spot(b).lat)
        lng_diff == Abs(Spot(a).lng - Spot(b).lng)
    IN lat_diff * lat_diff + lng_diff * lng_diff

\* A visit order that takes the spots as they come.
Closest_takes_the_next(from, remaining) == 1

\* min(remaining, key=distance): the first of the nearest.
RECURSIVE Closest(_, _)
Closest(from, remaining) ==
    IF Len(remaining) = 1 THEN 1
    ELSE LET k == Closest(from, SubSeq(remaining, 1, Len(remaining) - 1))
         IN IF DistSq(from, remaining[Len(remaining)]) < DistSq(from, remaining[k])
            THEN Len(remaining) ELSE k

\* list.remove(x): the first occurrence goes.
RemoveAt(seq, k) == SubSeq(seq, 1, k - 1) \o SubSeq(seq, k + 1, Len(seq))

RECURSIVE VisitLoop(_, _)
VisitLoop(ordered, remaining) ==
    IF remaining = <<>> THEN ordered
    ELSE LET k == Closest(ordered[Len(ordered)], remaining)
         IN VisitLoop(Append(ordered, remaining[k]), RemoveAt(remaining, k))

\* SchedulePlanner._optimize_visit_order
optimize_visit_order(spots) ==
    IF Len(spots) <= 1 THEN spots
    ELSE VisitLoop(<<spots[1]>>, Tail(spots))

\* Wall-clock times are minutes after midnight; datetime.combine(today, t) +
\* timedelta(minutes=m), read back with .time(), wraps at midnight.
MinutesPerDay == 1440
AddMinutes(t, m) == (t + m) % MinutesPerDay

\* Time slots that follow one another without the travel gap.
RECURSIVE allocate_time_slots_without_gap(_, _)
allocate_time_slots_without_gap(spots, start_time) ==
    IF spots = <<>> THEN <<>>
    ELSE LET item_end == AddMinutes(start_time, Spot(Head(spots)).estimated_duration + 15)
             plan_item == [start_time |-> start_time, end_time |-> item_end,
                           spot |-> Head(spots), transportation_to_next |-> None]
         IN <<plan_item>> \o allocate_time_slots_without_gap(Tail(spots), item_end)

\* SchedulePlanner._allocate_time_slots
RECURSIVE allocate_time_slots(_, _)
allocate_time_slots(spots, start_time) ==
    IF spots = <<>> THEN <<>>
    ELSE LET duration_minutes == Spot(Head(spots)).estimated_duration + 15
             item_end == AddMinutes(start_time, duration_minutes)
             plan_item == [start_time |-> start_time, end_time |-> item_end,
                           spot |-> Head(spots), transportation_to_next |-> None]
         IN <<plan_item>> \o allocate_time_slots(Tail(spots), AddMinutes(item_end, 30))

\* The integer square root, by bisection of lo..hi.
RECURSIVE ISqrtBetween(_, _, _)
ISqrtBetween(n, lo, hi) ==
    IF lo >= hi THEN lo
    ELSE LET mid == (lo + hi + 1) \div 2
         IN IF mid * mid <= n THEN ISqrtBetween(n, mid, hi) ELSE ISqrtBetween(n, lo, mid - 1)

\* 46340 is the largest root whose square is a 32-bit integer.
ISqrt(n) == ISqrtBetween(n, 0, Min(n, 46340))

\* floor(m * sqrt(d)) for a multiplier m: with s = ISqrt(d) the value is
\* m*s + k for the largest k in 0..m with 2*m*s*k + k*k <= m*m*(d - s*s).
FloorMulSqrt(m, d) ==
    LET s == ISqrt(d)
        K == {k \in 0..m : 2 * m * s * k + k * k <= m * m * (d - s * s)}
    IN m * s + (CHOOSE k \in K : \A j \in K : j <= k)

\* The Transportation of SchedulePlanner._add_transportation_info for a leg of
\* squared length d: 1 km is DistSq 8116 (10^8 / 111^2, rounded down) and 5 km
\* is DistSq 202905.
transportation(d) ==
    IF d <= 8116 THEN [mode |-> "walking", duration |-> 15, distance |-> d, cost |-> 0]
    ELSE IF d <= 202905
         THEN [mode |-> "public_transport", duration |-> 25, distance |-> d, cost |-> 1500]
         ELSE [mode |-> "taxi", duration |-> FloorMulSqrt(333, d) \div 10000,
               distance |-> d, cost |-> FloorMulSqrt(111, d) \div 10]

\* SchedulePlanner._add_transportation_info
add_transportation_info(plan_items) ==
    [i \in 1..Len(plan_items) |->
        IF i < Len(plan_items)
        THEN [plan_items[i] EXCEPT !.transportation_to_next =
                 Some(transportation(DistSq(plan_items[i].spot, plan_items[i + 1].spot)))]
        ELSE plan_items[i]]

\* DatePlanItem.get_duration_minutes
get_duration_minutes(item) ==
    IF item.end_time < item.start_time
    THEN item.end_time + MinutesPerDay - item.start_time
    ELSE item.end_time - item.start_time

\* DatePlanItem.get_total_cost, with its default num_people = 2
get_total_cost(item) ==
    LET spot_cost == Spot(item.spot).estimated_cost * 2
        transport_cost == IF item.transportation_to_next /= None
                          THEN The(item.transportation_to_next).cost ELSE 0
    IN spot_cost + transport_cost

\* sum(item.get_total_cost() for item in items)
RECURSIVE SumCost(_)
SumCost(items) ==
    IF items = <<>> THEN 0 ELSE get_total_cost(Head(items)) + SumCost(Tail(items))

\* sum(item.get_duration_minutes() for item in items)
RECURSIVE SumDuration(_)
SumDuration(items) ==
    IF items = <<>> THEN 0 ELSE get_duration_minutes(Head(items)) + SumDuration(Tail(items))

\* DatePlan._recalculate_totals
recalculate_totals(plan) ==
    [plan EXCEPT !.total_estimated_cost = SumCost(plan.items),
                 !.total_duration_minutes = SumDuration(plan.items)]

\* time(10, 0), what _parse_start_time falls back on.
DefaultStart == 600

\* A start_time preference: "HH:MM" is <<"iso", h, m>>, "오전 N시" and
\* "오후 N시" are <<"si", "am", n>> and <<"si", "pm", n>>, any other text is
\* <<"text">>.
ClockText(h, m) == <<"iso", h, m>>

\* SchedulePlanner._parse_start_time: time.fromisoformat and time(hour, 0)
\* raise on an hour or minute out of range, and the bare except answers 10:00.
parse_start_time(time_str) ==
    IF time_str[1] = "iso"
    THEN IF time_str[2] \in 0..23 /\ time_str[3] \in 0..59
         THEN time_str[2] * 60 + time_str[3] ELSE DefaultStart
    ELSE IF time_str[1] = "si"
    THEN LET hour == IF time_str[2] = "pm" /\ time_str[3] /= 12
                     THEN time_str[3] + 12 ELSE time_str[3]
         IN IF hour \in 0..23 THEN hour * 60 ELSE DefaultStart
    ELSE DefaultStart

\* SchedulePlanner.create_date_plan
create_date_plan(spots, user_preferences) ==
    LET start_time == parse_start_time(Get(user_preferences, "start_time", ClockText(10, 0)))
        budget == Get(user_preferences, "budget", Inf)
        optimized_spots == optimize_spots(spots, budget, user_preferences)
        ordered_spots == optimize_visit_order(optimized_spots)
        plan_items == add_transportation_info(allocate_time_slots(ordered_spots, start_time))
    IN recalculate_totals([items |-> plan_items, total_estimated_cost |-> 0,
                           total_duration_minutes |-> 0])

\* ------------------------------------------------------ changing a plan
\* DatePlanItem(start_time, end_time, spot)
DatePlanItem(start_time, end_time, spot) ==
    [start_time |-> start_time, end_time |-> end_time, spot |-> spot,
     transportation_to_next |-> None]

\* An add_item that appends and leaves the totals as they were.
add_item_keeps_totals(plan, item) == [plan EXCEPT !.items = Append(@, item)]

\* DatePlan.add_item
add_item(plan, item) == recalculate_totals([plan EXCEPT !.items = Append(@, item)])

\* DatePlan.remove_item
remove_item(plan, index) ==
    IF 0 <= index /\ index < Len(plan.items)
    THEN recalculate_totals([plan EXCEPT !.items = RemoveAt(@, index + 1)])
    ELSE plan

\* DatePlanItem.has_time_conflict
has_time_conflict(item, other) ==
    ~(item.end_time <= other.start_time \/ other.end_time <= item.start_time)

\* DatePlan.has_time_conflicts: the pairs (i, j) it lists, counted from 0.
has_time_conflicts(plan) ==
    {<<i - 1, j - 1>> : <<i, j>> \in
        {p \in (1..Len(plan.items)) \X (1..Len(plan.items)) :
            p[1] < p[2] /\ has_time_conflict(plan.items[p[1]], plan.items[p[2]])}}

\* A replacement that goes on after the first match.
replace_spots_everywhere(plan, parameters) ==
    recalculate_totals(
        [plan EXCEPT !.items =
            [i \in 1..Len(@) |->
                IF Some(Spot(@[i].spot).id) = Get(parameters, "spot_id", None)
                   /\ Get(parameters, "alternatives", <<>>) /= <<>>
                THEN [@[i] EXCEPT !.spot = Get(parameters, "alternatives", <<>>)[1]]
                ELSE @[i]]])

\* SchedulePlanner._replace_spots: spot_id is None or Some(id).
replace_spots(plan, parameters) ==
    LET spot_to_replace == Get(parameters, "spot_id", None)
        alternative_spots == Get(parameters, "alternatives", <<>>)
        hits == {i \in 1..Len(plan.items) :
                    Some(Spot(plan.items[i].spot).id) = spot_to_replace
                    /\ alternative_spots /= <<>>}
    IN recalculate_totals(
           IF hits = {} THEN plan
           ELSE [plan EXCEPT !.items[CHOOSE i \in hits : \A j \in hits : i <= j].spot =
                                 alternative_spots[1]])

\* _adjust_timing, what a pace does to one item.
pace_item(item, pace) ==
    IF pace = "relaxed" THEN [item EXCEPT !.end_time = AddMinutes(@, 30)]
    ELSE IF pace = "tight" /\ AddMinutes(item.end_time, MinutesPerDay - 20) > item.start_time
         THEN [item EXCEPT !.end_time = AddMinutes(@, MinutesPerDay - 20)]
         ELSE item

\* The loop of _recalculate_schedule_times: `done` are the items already
\* re-timed, the last of them the prev_item of the next.
RECURSIVE RetimeLoop(_, _)
RetimeLoop(done, rest) ==
    IF rest = <<>> THEN done
    ELSE LET prev_item == done[Len(done)]
             travel_time == IF prev_item.transportation_to_next /= None
                            THEN The(prev_item.transportation_to_next).duration ELSE 30
             new_start == AddMinutes(prev_item.end_time, travel_time)
             new_end == AddMinutes(new_start, get_duration_minutes(Head(rest)))
         IN RetimeLoop(Append(done, [Head(rest) EXCEPT !.start_time = new_start,
                                                       !.end_time = new_end]),
                       Tail(rest))

\* A re-timing that leaves every item where it is.
recalculate_schedule_times_keeps_times(plan) == plan

\* SchedulePlanner._recalculate_schedule_times
recalculate_schedule_times(plan) ==
    IF plan.items = <<>> THEN plan
    ELSE [plan EXCEPT !.items = RetimeLoop(<<Head(@)>>, Tail(@))]

\* SchedulePlanner._adjust_timing
adjust_timing(plan, parameters) ==
    recalculate_totals(recalculate_schedule_times(
        [plan EXCEPT !.items =
            [i \in 1..Len(@) |-> pace_item(@[i], Get(parameters, "pace", "normal"))]]))

\* sorted(plan.items, key=spot.estimated_cost, reverse=True): stable.
RECURSIVE InsertByCost(_, _)
InsertByCost(sorted, item) ==
    IF sorted = <<>> THEN <<item>>
    ELSE IF Spot(Head(sorted).spot).estimated_cost >= Spot(item.spot).estimated_cost
         THEN <<Head(sorted)>> \o InsertByCost(Tail(sorted), item)
         ELSE <<item>> \o sorted

RECURSIVE SortByCost(_)
SortByCost(items) ==
    IF items = <<>> THEN <<>>
    ELSE InsertByCost(SortByCost(SubSeq(items, 1, Len(items) - 1)), items[Len(items)])

\* list.remove(x): the first item equal to x goes.
RemoveFirst(seq, x) == RemoveAt(seq, CHOOSE i \in 1..Len(seq) : seq[i] = x /\ \A j \in 1..(i - 1) : seq[j] /= x)

\* A loop guard that lets the trim take the last item too.
trim_goes_on_to_the_last(plan, target_budget) ==
    plan.total_estimated_cost > target_budget /\ Len(plan.items) > 0

\* The guard of the while loop of _adjust_budget.
trim_goes_on(plan, target_budget) ==
    plan.total_estimated_cost > target_budget /\ Len(plan.items) > 1

\* What _adjust_budget ends with: the plan, the iterations its loop made, and
\* whether the loop came to an end (an iteration that removes nothing changes
\* nothing the guard reads, and the loop runs for ever).
Trimmed(plan, iterations, terminated) ==
    [plan |-> plan, iterations |-> iterations, terminated |-> terminated]

\* The while loop of _adjust_budget.
RECURSIVE TrimLoop(_, _, _, _)
TrimLoop(plan, sorted_items, target_budget, iterations) ==
    IF ~trim_goes_on(plan, target_budget) THEN Trimmed(plan, iterations, TRUE)
    ELSE IF sorted_items = <<>> \/ \A i \in 1..Len(plan.items) : plan.items[i] /= sorted_items[1]
         THEN Trimmed(recalculate_totals(plan), iterations, FALSE)
         ELSE TrimLoop(recalculate_totals(
                           [plan EXCEPT !.items = RemoveFirst(@, sorted_items[1])]),
                       Tail(sorted_items), target_budget, iterations + 1)

\* SchedulePlanner._adjust_budget
adjust_budget(plan, parameters) ==
    IF Get(parameters, "direction", "decrease") = "decrease"
       /\ plan.total_estimated_cost > Get(parameters, "target_budget", plan.total_estimated_cost)
    THEN TrimLoop(plan, SortByCost(plan.items),
                  Get(parameters, "target_budget", plan.total_estimated_cost), 0)
    ELSE Trimmed(plan, 0, TRUE)

\* ------------------------------------------------------------- user text
\* The user inputs the model feeds to the agent.  A number is one token.
Text_Plan == <<"Seoul", "eseo", " ", "deiteu">>
Text_Cafe == <<"kape", " ", "joha", "hae">>
Text_Full == <<"Seoul", "eseo", " ", "naeil", " ", "munhwajae", " ", "0", "won">>
Text_Budget == <<"yesan", "eun", " ", "man", "won">>
Text_Busan == <<"Busan", "euro", " ", "bakkwo", "jwo">>
Text_Anywhere == <<"amudena", " ", "kape">>
Text_1 == <<"1", "beon">>
Text_9 == <<"9", "beon">>
Text_Gyeongbokgung == <<"Gyeongbokgung">>
Text_Good == <<"joha", "yo">>
Text_GoodButChange == <<"joha", "yo", " ", "geunde", " ", "dareun", " ", "goseuro", " ", "bakkwo", "jwo">>

\* The tokens that re's \d+ matches, with their int() values.
NumberValue == [t \in {"0", "1", "2", "9"} |->
                   CASE t = "0" -> 0 [] t = "1" -> 1 [] t = "2" -> 2 [] t = "9" -> 9]

\* any(word in user_input for word in words)
AnyIn(words, user_input) == \E w \in words : Contains(user_input, w)

\* ------------------------------------------------------------- extraction
\* What _extract_entities_with_gemini hands to parse_user_query: a dict whose
\* values may be null (an absent key reads as null through dict.get; {} is the
\* dict the extractor returns when it is unavailable, throws or gets no
\* JSON), or a JSON value that is no dict (is_dict FALSE).
Entities(location, budget, date, interests) ==
    [is_dict |-> TRUE, location |-> location, budget |-> budget, date |-> date,
     interests |-> interests]

NoEntities == Entities(None, None, None, {})
NotADict == [is_dict |-> FALSE, location |-> None, budget |-> None, date |-> None,
             interests |-> {}]

\* The turns the model feeds to the agent: a user input with what the
\* extractor makes of it.  The extractor is a language model, so one text has
\* several readings, among them the empty dict and a JSON value that is no dict.
Inputs ==
    { <<Text_Plan, Entities(Some(<<"Seoul">>), None, None, {})>>,
      <<Text_Plan, NoEntities>>,
      <<Text_Plan, NotADict>>,
      <<Text_Cafe, Entities(None, None, None, {"kape"})>>,
      <<Text_Full, Entities(Some(<<"Seoul">>), Some(0), Some(<<"naeil">>), {"munhwajae"})>>,
      <<Text_Budget, Entities(None, Some(10000), None, {})>>,
      <<Text_Busan, Entities(Some(<<"Busan">>), None, None, {})>>,
      <<Text_Anywhere, Entities(Some(<<>>), None, None, {"kape"})>>,
      <<Text_Anywhere, Entities(Some(<<" ">>), None, None, {"kape"})>>,
      <<Text_1, NoEntities>>,
      <<Text_9, NoEntities>>,
      <<Text_Gyeongbokgung, NoEntities>>,
      <<Text_Good, NoEntities>>,
      <<Text_GoodButChange, NoEntities>> }

\* --------------------------------------------------------------- UserQuery
\* DialogAgent.parse_user_query on a dict: the UserQuery it builds.  The
\* interests live in preferences["interests"]; an absent key reads as [].
parse_user_query(entities) ==
    [location |-> entities.location, budget |-> entities.budget, date |-> entities.date,
     preferences |-> [interests |-> entities.interests]]

\* UserQuery.get_interests
get_interests(query) == Get(query.preferences, "interests", {})

\* A has_location that takes every non-null location, blank ones included.
has_location_nonnull(query) == query.location /= None

\* UserQuery.has_location
has_location(query) == query.location /= None /\ Strip(The(query.location)) /= <<>>

\* UserQuery.is_complete
is_complete(query) == has_location(query) /\ Cardinality(get_interests(query)) > 0

\* UserQuery.add_preference
add_preference(query, key, value) ==
    [query EXCEPT !.preferences =
        [k \in DOMAIN query.preferences \cup {key} |->
            IF k = key THEN value ELSE query.preferences[k]]]

\* ------------------------------------------------------------ Conversation
\* Conversation(session_id, initial_query): the dataclass defaults.  The
\* UserQuery it refers to is kept apart (variable initial_query) because the
\* agent's Conversation and the manager's refer to the same UserQuery object.
NewConversation ==
    [current_state |-> "INITIAL_PLANNING", turns |-> <<>>, awaiting_user_input |-> FALSE,
     expected_input_type |-> None, collected_data |-> <<>>, current_plan |-> None]

\* ConversationTurn(turn_id, ..., interaction_type, state_after)
ConversationTurn(turn_id, interaction_type, state_after) ==
    [turn_id |-> turn_id, interaction_type |-> interaction_type,
     state_before |-> None, state_after |-> state_after]

\* An add_turn that appends the turn and leaves current_state as it was.
add_turn_keeps_state(conv, turn) ==
    [conv EXCEPT !.turns = Append(@, [turn EXCEPT !.state_before = Some(conv.current_state)])]

\* Conversation.add_turn.  The turn is an object: stamping state_before shows
\* in every place of the list that holds the same object (same turn_id).
add_turn(conv, turn) ==
    LET stamped == [turn EXCEPT !.state_before = Some(conv.current_state)]
        restamped == [i \in DOMAIN conv.turns |->
                         IF conv.turns[i].turn_id = turn.turn_id THEN stamped
                         ELSE conv.turns[i]]
    IN [conv EXCEPT !.turns = Append(restamped, stamped),
                    !.current_state = IF turn.state_after /= None
                                      THEN The(turn.state_after) ELSE @]

\* Conversation.set_awaiting_input
set_awaiting_input(conv, input_type) ==
    [conv EXCEPT !.awaiting_user_input = TRUE, !.expected_input_type = Some(input_type)]

\* A clear_awaiting_input that forgets the flag.
clear_awaiting_input_keeps_flag(conv) == [conv EXCEPT !.expected_input_type = None]

\* Conversation.clear_awaiting_input
clear_awaiting_input(conv) ==
    [conv EXCEPT !.awaiting_user_input = FALSE, !.expected_input_type = None]

\* Conversation.update_collected_data
update_collected_data(conv, key, value) ==
    [conv EXCEPT !.collected_data =
        [k \in DOMAIN conv.collected_data \cup {key} |->
            IF k = key THEN value ELSE conv.collected_data[k]]]

\* ConversationManager.update_state on the conversation the store holds.
update_state(conv, new_state) == [conv EXCEPT !.current_state = new_state]

\* ConversationManager.update_turn on the conversation the store holds.
update_turn(conv, turn) == add_turn(conv, turn)

\* ------------------------------------------------------------ DialogAgent
\* What a handler hands back: the conversation and the UserQuery as it left
\* them, its (response, next_state) pair, and what it called on the way.
Handled(conv, query, response, next_state, searched, found, planned) ==
    [conv |-> conv, query |-> query, response |-> response, next_state |-> next_state,
     searched |-> searched, found |-> found, planned |-> planned]

\* int(budget or 0)
IntOrZero(budget) == IF TruthyNum(budget) THEN The(budget) ELSE 0

\* DialogAgent._handle_initial_planning, the merge of the turn's UserQuery
\* into the running one.
merge_query(query, additional_info) ==
    LET q1 == IF TruthyStr(additional_info.location) /\ ~TruthyStr(query.location)
              THEN [query EXCEPT !.location = additional_info.location] ELSE query
        q2 == IF TruthyNum(additional_info.budget) /\ ~TruthyNum(q1.budget)
              THEN [q1 EXCEPT !.budget = additional_info.budget] ELSE q1
        all_interests == get_interests(q2) \cup get_interests(additional_info)
    IN add_preference(q2, "interests", all_interests)

\* _handle_initial_planning once the search returned (lines 377-383): the
\* candidates are stored and offered for selection.
offer_candidates(conv, query, spots) ==
    LET c1 == update_collected_data(conv, "candidate_spots", spots)
        c2 == set_awaiting_input(c1, "SELECTION_REQUIRED")
        c3 == update_state(c2, "AWAITING_USER_SELECTION")
    IN Handled(c3, query, "select_from_options", "AWAITING_USER_SELECTION",
               TRUE, Len(spots), FALSE)

\* _handle_initial_planning once the Query is merged (lines 368-388)
search_or_clarify(conv, query) ==
    IF is_complete(query)
    THEN offer_candidates(conv, query,
                          search_spots(The(query.location), get_interests(query),
                                       IntOrZero(query.budget)))
    ELSE Handled(conv, query, "clarification_request", "INITIAL_PLANNING", FALSE, 0, FALSE)

\* DialogAgent._handle_initial_planning
handle_initial_planning(conv, query, entities) ==
    search_or_clarify(conv, merge_query(query, parse_user_query(entities)))

\* The place names _parse_selections looks for, in the order of its list.
places == << <<"Gyeongbokgung">>, <<"Insadong">>, <<"Namsan">>, <<"Hongdae">>, <<"Myeongdong">> >>

\* DialogAgent._parse_selections: <<"option", n>> stands for the string
\* "option_<n>", <<"place", name>> for a place name.
parse_selections(user_input) ==
    LET numbers == SelectSeq(user_input, LAMBDA t : t \in DOMAIN NumberValue)
        options == [i \in 1..Len(numbers) |-> <<"option", NumberValue[numbers[i]]>>]
        named == SelectSeq(places, LAMBDA place : Contains(user_input, place))
    IN options \o [i \in 1..Len(named) |-> <<"place", named[i]>>]

\* A selection loop that reads "option_k" as the index k, counted from 0.
selected_by_counts_from_0(sel, candidates) ==
    IF sel[1] = "option"
    THEN LET index == sel[2]
         IN IF 0 <= index /\ index < Len(candidates) THEN <<candidates[index + 1]>> ELSE <<>>
    ELSE SelectSeq(candidates, LAMBDA r : StartsWith(Spot(r).name, sel[2]))

\* The candidates one selection stands for (the body of the selection loop).
selected_by(sel, candidates) ==
    IF sel[1] = "option"
    THEN LET index == sel[2] - 1
         IN IF 0 <= index /\ index < Len(candidates) THEN <<candidates[index + 1]>> ELSE <<>>
    ELSE SelectSeq(candidates, LAMBDA r : StartsWith(Spot(r).name, sel[2]))

RECURSIVE resolve_selections(_, _)
resolve_selections(selections, candidates) ==
    IF selections = <<>> THEN <<>>
    ELSE selected_by(Head(selections), candidates)
         \o resolve_selections(Tail(selections), candidates)

\* A _handle_user_selection that stops waiting for a selection as soon as it
\* has an input, resolved or not.
handle_user_selection_stops_waiting(conv, query, user_input) ==
    LET selections == parse_selections(user_input)
        candidates == Get(conv.collected_data, "candidate_spots", <<>>)
        selected == resolve_selections(selections, candidates)
        c0 == clear_awaiting_input(conv)
    IN IF selected = <<>>
       THEN Handled(c0, query, "selection_not_understood", "AWAITING_USER_SELECTION",
                    FALSE, 0, FALSE)
       ELSE LET c1 == update_collected_data(c0, "selected_spots", selected)
                plan == create_date_plan(selected, query.preferences)
                c2 == [c1 EXCEPT !.current_plan = Some(plan)]
                c3 == update_state(c2, "PRESENTING_RESULTS")
            IN Handled(c3, query, "plan_summary", "PRESENTING_RESULTS", FALSE, 0, TRUE)

\* A _handle_user_selection that plans whatever the selection resolves to,
\* nothing included.
handle_user_selection_plans_nothing(conv, query, user_input) ==
    LET selections == parse_selections(user_input)
        candidates == Get(conv.collected_data, "candidate_spots", <<>>)
        selected == resolve_selections(selections, candidates)
    IN IF selections /= <<>>
       THEN LET c1 == update_collected_data(conv, "selected_spots", selected)
                plan == create_date_plan(selected, query.preferences)
                c2 == [c1 EXCEPT !.current_plan = Some(plan)]
                c3 == update_state(c2, "PRESENTING_RESULTS")
                c4 == clear_awaiting_input(c3)
            IN Handled(c4, query, "plan_summary", "PRESENTING_RESULTS", FALSE, 0, TRUE)
       ELSE Handled(conv, query, "selection_not_understood", "AWAITING_USER_SELECTION",
                    FALSE, 0, FALSE)

\* DialogAgent._handle_user_selection
handle_user_selection(conv, query, user_input) ==
    LET selections == parse_selections(user_input)
        candidates == Get(conv.collected_data, "candidate_spots", <<>>)
        selected == resolve_selections(selections, candidates)
    IN IF selections /= <<>>
       THEN IF selected = <<>>
            THEN Handled(conv, query, "number_not_understood", "AWAITING_USER_SELECTION",
                         FALSE, 0, FALSE)
            ELSE LET c1 == update_collected_data(conv, "selected_spots", selected)
                     plan == create_date_plan(selected, query.preferences)
                     c2 == [c1 EXCEPT !.current_plan = Some(plan)]
                     c3 == update_state(c2, "PRESENTING_RESULTS")
                     c4 == clear_awaiting_input(c3)
                 IN Handled(c4, query, "plan_summary", "PRESENTING_RESULTS", FALSE, 0, TRUE)
       ELSE Handled(conv, query, "selection_not_understood", "AWAITING_USER_SELECTION",
                    FALSE, 0, FALSE)

\* The keyword lists of _handle_result_feedback.
confirmation_words == {<<"joha">>, <<"maeume", " ", "deureo">>, <<"wanbyeok">>, <<"hwakjeong">>}
modification_words == {<<"sujeong">>, <<"bakkwo">>, <<"dareun">>, <<"byeongyeong">>}

\* A _handle_result_feedback that looks for a modification word first.
handle_result_feedback_modification_first(conv, query, user_input) ==
    IF AnyIn(modification_words, user_input)
    THEN Handled(conv, query, "what_to_change", "MODIFYING_PLAN", FALSE, 0, FALSE)
    ELSE IF AnyIn(confirmation_words, user_input)
         THEN Handled(conv, query, "enjoy_your_date", "PLAN_CONFIRMED", FALSE, 0, FALSE)
         ELSE Handled(conv, query, "ask_me_more", "PRESENTING_RESULTS", FALSE, 0, FALSE)

\* DialogAgent._handle_result_feedback
handle_result_feedback(conv, query, user_input) ==
    IF AnyIn(confirmation_words, user_input)
    THEN Handled(conv, query, "enjoy_your_date", "PLAN_CONFIRMED", FALSE, 0, FALSE)
    ELSE IF AnyIn(modification_words, user_input)
         THEN Handled(conv, query, "what_to_change", "MODIFYING_PLAN", FALSE, 0, FALSE)
         ELSE Handled(conv, query, "ask_me_more", "PRESENTING_RESULTS", FALSE, 0, FALSE)

\* A _handle_general_input that sends the conversation back to planning.
handle_general_input_replans(conv, query, user_input) ==
    Handled(conv, query, "processing", "INITIAL_PLANNING", FALSE, 0, FALSE)

\* A _handle_general_input that goes on to wait for feedback.
handle_general_input_awaits_feedback(conv, query, user_input) ==
    Handled(conv, query, "processing", "AWAITING_FEEDBACK", FALSE, 0, FALSE)

\* DialogAgent._handle_general_input
handle_general_input(conv, query, user_input) ==
    Handled(conv, query, "processing", conv.current_state, FALSE, 0, FALSE)

\* DialogAgent._process_by_state
process_by_state(conv, query, user_input, entities) ==
    IF conv.current_state = "INITIAL_PLANNING"
    THEN handle_initial_planning(conv, query, entities)
    ELSE IF conv.current_state = "AWAITING_USER_SELECTION"
         THEN handle_user_selection(conv, query, user_input)
         ELSE IF conv.current_state = "PRESENTING_RESULTS"
              THEN handle_result_feedback(conv, query, user_input)
              ELSE handle_general_input(conv, query, user_input)

\* DialogAgent._determine_interaction_type
determine_interaction_type(conv, user_input) ==
    IF conv.awaiting_user_input /\ conv.expected_input_type /= None
    THEN The(conv.expected_input_type)
    ELSE IF AnyIn({<<"seontaek">>, <<"goreu">>}, user_input) THEN "SELECTION_REQUIRED"
    ELSE IF Contains(user_input, <<"?">>)
            \/ AnyIn({<<"mwo">>, <<"eotteon">>, <<"eonje">>}, user_input)
         THEN "INFORMATION_REQUEST"
    ELSE IF AnyIn({<<"sujeong">>, <<"bakkwo">>, <<"byeongyeong">>}, user_input)
         THEN "PLAN_MODIFICATION"
    ELSE "GENERAL_QUESTION"

\* f"turn_{len(conversation.turns) + 1}"
next_turn_id(conv) == Len(conv.turns) + 1

\* DialogAgent.handle_user_input for a conversation the manager's store
\* holds (lines 266-280): the handler (handle_existing), then the Turn,
\* appended by the agent and appended again by ConversationManager.update_turn
\* (record_turn, on what the handler handed back).
record_turn(h, user_input) ==
    LET turn == ConversationTurn(next_turn_id(h.conv),
                                 determine_interaction_type(h.conv, user_input),
                                 Some(h.next_state))
    IN [h EXCEPT !.conv = update_turn(add_turn(h.conv, turn), turn)]

handle_existing(conv, query, user_input, entities) ==
    record_turn(process_by_state(conv, query, user_input, entities), user_input)

\* An attribute of the ConversationState enum: reading a member the enum does
\* not have raises AttributeError.
HasMember(name) == name \in ConversationState

\* DialogAgent.start_conversation after parse_user_query returned (lines
\* 187-257).  memory_conv is the Conversation the agent builds and keeps,
\* store_conv the one ConversationManager.start_conversation builds and
\* saves.  Every branch assigns ConversationState.AWAITING_USER_INPUT; when
\* that lookup raises inside the try block the except clause runs and makes
\* the same lookup.
start_conversation_run(entities) ==
    LET user_query == parse_user_query(entities)
        enough == TruthyStr(user_query.location) /\ get_interests(user_query) /= {}
        budget_for_search == IF user_query.budget /= None THEN The(user_query.budget) ELSE 0
        tourist_spots == search_spots(The(user_query.location), get_interests(user_query),
                                      budget_for_search)
        searched == enough
        found == IF enough THEN Len(tourist_spots) ELSE 0
        planned == enough /\ tourist_spots /= <<>>
        final_response_text ==
            IF enough
            THEN IF ~HasMember("AWAITING_USER_INPUT") THEN "planning_error_try_again"
                 ELSE IF tourist_spots = <<>> THEN "no_spots_found" ELSE "plan_text"
            ELSE IF ~TruthyStr(user_query.location) THEN "ask_location"
                 ELSE "ask_interests"
        raised == ~HasMember("AWAITING_USER_INPUT")
        turn == ConversationTurn(1, "INITIAL_QUERY", Some("AWAITING_USER_INPUT"))
    IN [raised |-> raised,
        query |-> user_query,
        memory_conv |-> IF raised THEN NewConversation
                        ELSE add_turn([NewConversation EXCEPT
                                          !.current_state = "AWAITING_USER_INPUT"], turn),
        store_conv |-> IF raised THEN NewConversation ELSE update_turn(NewConversation, turn),
        response |-> IF raised THEN None ELSE Some(final_response_text),
        conversation_state |-> IF raised THEN None ELSE Some("AWAITING_USER_INPUT"),
        searched |-> searched, found |-> found, planned |-> planned]

\* ------------------------------------------------------------------ state
Sessions == {"s1"}

VARIABLES
    conversation_memory,  \* DialogAgent.conversation_memory: session id -> Conversation
    store,                \* ConversationManager.store._store: session id -> Conversation
    initial_query,        \* session id -> the UserQuery its conversations refer to
    last                  \* the last call made on the agent and how it ended

vars == <<conversation_memory, store, initial_query, last>>

\* The calls in flight when turns of several sessions are interleaved (see
\* SpecAsync below); the one-call-at-a-time specification leaves them alone.
VARIABLES
    tasks,                \* session id -> the call in flight on it and where it waits
    alone                 \* session id -> what its calls so far give when run alone

async_vars == <<tasks, alone>>

\* The plan a caller of the planner holds (see SpecPlanner below); the dialog
\* specifications leave it alone.
VARIABLES
    date_plan,            \* the DatePlan the caller holds, or None
    plan_call             \* the last call made on the planner or the plan

planner_vars == <<date_plan, plan_call>>

\* What the extractor returned and the confidence parse_user_query made of it
\* (see SpecConfidence below); the other specifications leave them alone.
VARIABLES
    extracted,            \* the dict of _extract_entities_with_gemini
    confidence_score      \* UserQuery.confidence_score, in hundredths

confidence_vars == <<extracted, confidence_score>>

\* A call on the planner or the plan: the operation, how many were made, the
\* spots and the preferences create_date_plan was given and the budget it
\* read, the target and the direction _adjust_budget read, the iterations its
\* loop made and whether the loop ended.
PlanCall(op, n, spots, user_preferences, budget, target_budget, direction, iterations, terminated) ==
    [op |-> op, n |-> n, spots |-> spots, user_preferences |-> user_preferences,
     budget |-> budget, target_budget |-> target_budget,
     direction |-> direction, iterations |-> iterations, terminated |-> terminated]

NoPlanCall == PlanCall("none", 0, <<>>, <<>>, Inf, 0, "none", 0, TRUE)

\* A dict that forgets every other key when one is set.
PutAlone(d, key, value) == [k \in {key} |-> value]

\* dict[key] = value
Put(d, key, value) == [k \in DOMAIN d \cup {key} |-> IF k = key THEN value ELSE d[k]]

\* del dict[key]
Del(d, key) == [k \in DOMAIN d \ {key} |-> d[k]]

\* One call on the agent as its caller and its collaborators saw it: the
\* operation, whether the store held the session, the state the call was
\* dispatched on, whether it returned or raised, the response and state it
\* returned, the running UserQuery once the turn's extraction was parsed (and
\* merged), and the calls it made on the researcher and the planner.
Call(op, session, user_input, existed, dispatched, outcome, response, conversation_state, query, searched, found, planned) ==
    [op |-> op, session |-> session, user_input |-> user_input, existed |-> existed,
     dispatched |-> dispatched, outcome |-> outcome, response |-> response,
     conversation_state |-> conversation_state, query |-> query, searched |-> searched,
     found |-> found, planned |-> planned]

Init ==
    /\ conversation_memory = <<>>
    /\ store = <<>>
    /\ initial_query = <<>>
    /\ last = Call("none", "s1", <<>>, FALSE, None, "returned", None, None, None,
                     FALSE, 0, FALSE)
    /\ tasks = <<>>
    /\ alone = <<>>
    /\ date_plan = None
    /\ plan_call = NoPlanCall
    /\ extracted = NoEntities
    /\ confidence_score = 0

\* start_conversation(session_id, user_input), as called directly (op =
\* "start_conversation") or from handle_user_input for a session the store
\* does not hold.  parse_user_query raises on an extraction that is no dict,
\* before anything is stored.
Start(op, s, user_input, entities) ==
    IF ~entities.is_dict
    THEN /\ UNCHANGED <<conversation_memory, store, initial_query>>
         /\ last' = Call(op, s, user_input, s \in DOMAIN store, None, "raised", None, None,
                         None, FALSE, 0, FALSE)
    ELSE \E r \in {start_conversation_run(entities)} :
            /\ store' = Put(store, s, r.store_conv)
            /\ conversation_memory' = Put(conversation_memory, s, r.memory_conv)
            /\ initial_query' = Put(initial_query, s, r.query)
            /\ last' = Call(op, s, user_input, s \in DOMAIN store, None,
                            IF r.raised THEN "raised" ELSE "returned", r.response,
                            r.conversation_state, Some(r.query), r.searched, r.found,
                            r.planned)

StartConversation(s, user_input, entities) ==
    Start("start_conversation", s, user_input, entities)

\* handle_user_input(session_id, user_input)
HandleUserInput(s, user_input, entities) ==
    /\ s \in DOMAIN store => Len(store[s].turns) < MaxTurns
    /\ IF s \notin DOMAIN store
       THEN Start("handle_user_input", s, user_input, entities)
       ELSE IF store[s].current_state = "INITIAL_PLANNING" /\ ~entities.is_dict
       THEN /\ UNCHANGED <<conversation_memory, store, initial_query>>
            /\ last' = Call("handle_user_input", s, user_input, TRUE,
                            Some(store[s].current_state), "raised", None, None, None,
                            FALSE, 0, FALSE)
       ELSE \E h \in {handle_existing(store[s], initial_query[s], user_input, entities)} :
               /\ store' = Put(store, s, h.conv)
               /\ initial_query' = Put(initial_query, s, h.query)
               /\ UNCHANGED conversation_memory
               /\ last' = Call("handle_user_input", s, user_input, TRUE,
                               Some(store[s].current_state), "returned", Some(h.response),
                               Some(h.conv.current_state), Some(h.query), h.searched,
                               h.found, h.planned)

\* clear_conversation(session_id)
ClearConversation(s) ==
    /\ conversation_memory' = Del(conversation_memory, s)
    /\ UNCHANGED <<store, initial_query>>
    /\ last' = Call("clear_conversation", s, <<>>, s \in DOMAIN store, None, "returned",
                    None, None, None, FALSE, 0, FALSE)

Next ==
    \/ \E s \in Sessions, in \in Inputs :
          StartConversation(s, in[1], in[2]) /\ UNCHANGED <<async_vars, planner_vars, confidence_vars>>
    \/ \E s \in Sessions, in \in Inputs :
          HandleUserInput(s, in[1], in[2]) /\ UNCHANGED <<async_vars, planner_vars, confidence_vars>>
    \/ \E s \in Sessions : ClearConversation(s) /\ UNCHANGED <<async_vars, planner_vars, confidence_vars>>

Spec == Init /\ [][Next]_vars
\* ================================================================= claims
\* The conversation states the enum has.
IsState(o) == o /= None /\ The(o) \in ConversationState

\* The state the turn log of a conversation ends in.
LoggedState(conv) ==
    IF conv.turns = <<>> THEN "INITIAL_PLANNING"
    ELSE The(conv.turns[Len(conv.turns)].state_after)

\* The last call was a start_conversation, made directly or by
\* handle_user_input for a session the store did not hold.
LastWasStart ==
    last.op = "start_conversation" \/ (last.op = "handle_user_input" /\ ~last.existed)

\* The last call was a handle_user_input dispatched on a stored conversation.
LastWasTurn == last.op = "handle_user_input" /\ last.existed

\* C1: after every start_conversation or handle_user_input call, returned or
\* raised, the current_state of each stored conversation (the manager's and
\* the agent's) is the state_after of the last Turn of its turn sequence, or
\* INITIAL_PLANNING when it has no Turn.
C1_current_state_is_last_state_after ==
    /\ \A s \in DOMAIN store : store[s].current_state = LoggedState(store[s])
    /\ \A s \in DOMAIN conversation_memory :
          conversation_memory[s].current_state = LoggedState(conversation_memory[s])

\* C1, its case: a conversation whose turns took it through the dialog to
\* PLAN_CONFIRMED, the last step made by add_turn alone.
C1_witness ==
    /\ LastWasTurn /\ last.dispatched = Some("PRESENTING_RESULTS")
    /\ store[last.session].current_state = "PLAN_CONFIRMED"
    /\ store[last.session].turns /= <<>>

\* C2: every handle_user_input call that returns for a session the store
\* already held lengthens the conversation's turn sequence by exactly one
\* Turn.  (The code appends the Turn twice.)
C2_one_turn_per_call ==
    [][(last'.op = "handle_user_input" /\ last'.existed /\ last'.outcome = "returned"
        /\ last'.session \in DOMAIN store)
       => Len(store'[last'.session].turns) = Len(store[last'.session].turns) + 1]_vars

\* C3: start_conversation never raises: it returns a response text and a
\* state of the ConversationState enum, and records one Turn.  (The code
\* raises AttributeError on every call.)
C3_start_conversation_never_raises ==
    last.op = "start_conversation"
    => /\ last.outcome = "returned"
       /\ last.response /= None
       /\ IsState(last.conversation_state)
       /\ last.session \in DOMAIN store
       /\ Len(store[last.session].turns) = 1
\* C4: a first message that yields a complete Query with at least one
\* matching venue leaves start_conversation in AWAITING_USER_SELECTION with
\* the candidates stored; from there an in-range candidate number leads to
\* PRESENTING_RESULTS with a plan, and a confirmation keyword from there to
\* PLAN_CONFIRMED.  (start_conversation raises before it sets a state or
\* stores a candidate.)
C4_first_message_reaches_selection ==
    /\ (last.op = "start_conversation" /\ last.searched /\ last.found > 0)
       => /\ last.outcome = "returned"
          /\ store[last.session].current_state = "AWAITING_USER_SELECTION"
          /\ "candidate_spots" \in DOMAIN store[last.session].collected_data
    /\ (LastWasTurn /\ last.dispatched = Some("AWAITING_USER_SELECTION")
        /\ last.response = Some("plan_summary"))
       => /\ store[last.session].current_state = "PRESENTING_RESULTS"
          /\ store[last.session].current_plan /= None
    /\ (LastWasTurn /\ last.dispatched = Some("PRESENTING_RESULTS")
        /\ AnyIn(confirmation_words, last.user_input))
       => store[last.session].current_state = "PLAN_CONFIRMED"

\* C5: handle_user_input on a session id the store does not hold is never an
\* error, and gives the response, the stored conversation and the state that
\* start_conversation gives for the same session id and text.  (It makes the
\* same call, and start_conversation raises.)
C5_unknown_session_starts_conversation ==
    [][\A s \in Sessions, in \in Inputs :
          (s \notin DOMAIN store /\ HandleUserInput(s, in[1], in[2]))
          => /\ last'.outcome = "returned"
             /\ last'.response /= None
             /\ in[2].is_dict
             /\ LET r == start_conversation_run(in[2])
                IN /\ last'.response = r.response
                   /\ last'.conversation_state = r.conversation_state
                   /\ store'[s] = r.store_conv
                   /\ conversation_memory'[s] = r.memory_conv]_vars

\* C6: the agent's conversation memory and the manager's store agree, for
\* every session id, on whether a conversation exists, on its current state
\* and on its turns.  (handle_user_input writes to the store's conversation
\* only, clear_conversation deletes from the memory only.)
C6_memory_and_store_agree ==
    /\ DOMAIN conversation_memory = DOMAIN store
    /\ \A s \in DOMAIN store \cap DOMAIN conversation_memory :
          /\ conversation_memory[s].current_state = store[s].current_state
          /\ conversation_memory[s].turns = store[s].turns

\* Whether a call with this record reached the venue search it should have:
\* exactly when the location passes the given test and an interest is there.
SearchedIffGate(location_present(_)) ==
    /\ (LastWasStart /\ last.query /= None)
       => (last.searched <=> (location_present(The(last.query).location)
                              /\ get_interests(The(last.query)) /= {}))
    /\ (LastWasTurn /\ last.dispatched = Some("INITIAL_PLANNING") /\ last.query /= None)
       => (last.searched <=> (location_present(The(last.query).location)
                              /\ get_interests(The(last.query)) /= {}))

\* C7 as the spec words it: on the first turn and on every INITIAL_PLANNING
\* turn, venue search is invoked iff the running Query, after the turn's
\* extraction and merge, has a non-null location and a non-empty interest
\* set; venue search is invoked in no other state.
C7_search_iff_location_non_null ==
    /\ SearchedIffGate(LAMBDA location : location /= None)
    /\ (LastWasTurn /\ last.dispatched /= Some("INITIAL_PLANNING")) => ~last.searched

\* C7, amended: the location counts when it is non-null and non-empty on the
\* first turn, and when it is non-null and not blank (empty once stripped of
\* whitespace) on an INITIAL_PLANNING turn; with that, venue search is invoked
\* iff the running Query after the turn's extraction and merge has such a
\* location and a non-empty interest set, and in no other state, nor when the
\* extraction could not be parsed.
C7_search_iff_location_present ==
    /\ (LastWasStart /\ last.query /= None)
       => (last.searched <=> (/\ The(last.query).location /= None
                              /\ The(The(last.query).location) /= <<>>
                              /\ get_interests(The(last.query)) /= {}))
    /\ (LastWasTurn /\ last.dispatched = Some("INITIAL_PLANNING") /\ last.query /= None)
       => (last.searched <=> (/\ The(last.query).location /= None
                              /\ Strip(The(The(last.query).location)) /= <<>>
                              /\ get_interests(The(last.query)) /= {}))
    /\ (LastWasTurn /\ last.dispatched /= Some("INITIAL_PLANNING")) => ~last.searched
    /\ last.query = None => ~last.searched

\* C7, its case: an INITIAL_PLANNING turn whose running Query has interests
\* and a blank location, answered without a search; the same Query passed
\* the gate of the first turn.
C7_witness ==
    /\ LastWasTurn /\ last.dispatched = Some("INITIAL_PLANNING") /\ last.query /= None
    /\ The(last.query).location = Some(<<" ">>)
    /\ get_interests(The(last.query)) /= {}
    /\ ~last.searched

\* C8: when venue search finds no spot for a complete Query, on the first
\* turn or on an INITIAL_PLANNING turn, the turn is answered with the
\* no-results message and the conversation does not advance to
\* AWAITING_USER_SELECTION: the next input is taken as clarifying
\* information.  (The first turn raises; an INITIAL_PLANNING turn advances to
\* AWAITING_USER_SELECTION with no candidate.)
C8_no_results_keeps_clarifying ==
    (last.searched /\ last.found = 0)
    => /\ last.outcome = "returned"
       /\ last.response = Some("no_spots_found")
       /\ store[last.session].current_state /= "AWAITING_USER_SELECTION"
       /\ store[last.session].current_state \in {"INITIAL_PLANNING", "AWAITING_USER_INPUT"}

\* C9: the merge of _handle_initial_planning leaves every attribute that was
\* non-null in the running Query (location, budget, date) at its value, budget
\* 0 included, and keeps every interest.  (A running budget of 0, like a
\* running location "", is falsy and gives way to the turn's value.)
C9_merge_keeps_what_was_set ==
    [][(last'.op = "handle_user_input" /\ last'.existed /\ last'.outcome = "returned"
        /\ last'.dispatched = Some("INITIAL_PLANNING"))
       => LET before == initial_query[last'.session]
              after == initial_query'[last'.session]
          IN /\ before.location /= None => after.location = before.location
             /\ before.budget /= None => after.budget = before.budget
             /\ before.date /= None => after.date = before.date
             /\ get_interests(before) \subseteq get_interests(after)]_vars

\* C10: in AWAITING_USER_SELECTION an input that resolves to no stored
\* candidate is answered with a re-prompt and changes nothing but the turn
\* log: current_state, candidate_spots, selected_spots, current_plan, the
\* awaiting-input flag and its expected type, and the Query, are as before.
C10_unresolved_selection_changes_nothing ==
    [][(/\ last'.op = "handle_user_input" /\ last'.existed
        /\ last'.dispatched = Some("AWAITING_USER_SELECTION")
        /\ resolve_selections(parse_selections(last'.user_input),
                              Get(store[last'.session].collected_data,
                                  "candidate_spots", <<>>)) = <<>>)
       => /\ last'.response \in {Some("number_not_understood"),
                                 Some("selection_not_understood")}
          /\ store'[last'.session] =
                [store[last'.session] EXCEPT !.turns = store'[last'.session].turns]
          /\ initial_query' = initial_query
          /\ conversation_memory' = conversation_memory]_vars

\* C10, its case: a number that is no candidate's, sent while candidates are
\* stored and a selection is awaited, and re-prompted.
C10_witness ==
    /\ LastWasTurn /\ last.dispatched = Some("AWAITING_USER_SELECTION")
    /\ last.response = Some("number_not_understood")
    /\ Get(store[last.session].collected_data, "candidate_spots", <<>>) /= <<>>
    /\ store[last.session].awaiting_user_input
    /\ store[last.session].current_state = "AWAITING_USER_SELECTION"
\* A handle_user_input step dispatched on a stored conversation in `state`.
TurnStepIn(state) ==
    /\ last'.op = "handle_user_input" /\ last'.existed
    /\ last'.dispatched = Some(state)
    /\ last'.session \in DOMAIN store

\* C11 as the spec words it: in PRESENTING_RESULTS a text with a confirmation
\* keyword leads to PLAN_CONFIRMED, a text with a modification keyword leads
\* to MODIFYING_PLAN, any other text leaves PRESENTING_RESULTS; current_plan
\* is unchanged.
C11_feedback_by_keyword ==
    [][TurnStepIn("PRESENTING_RESULTS")
       => LET after == store'[last'.session]
              text == last'.user_input
          IN /\ AnyIn(confirmation_words, text) => after.current_state = "PLAN_CONFIRMED"
             /\ AnyIn(modification_words, text) => after.current_state = "MODIFYING_PLAN"
             /\ (~AnyIn(confirmation_words, text) /\ ~AnyIn(modification_words, text))
                => after.current_state = "PRESENTING_RESULTS"
             /\ after.current_plan = store[last'.session].current_plan]_vars

\* C11, amended: the confirmation keywords are looked for first, so a text
\* with a confirmation keyword leads to PLAN_CONFIRMED whatever else it
\* holds, a text with a modification keyword and no confirmation keyword
\* leads to MODIFYING_PLAN, and any other text leaves PRESENTING_RESULTS;
\* current_plan is unchanged.
C11_feedback_confirmation_first ==
    [][TurnStepIn("PRESENTING_RESULTS")
       => LET after == store'[last'.session]
              text == last'.user_input
          IN /\ AnyIn(confirmation_words, text) => after.current_state = "PLAN_CONFIRMED"
             /\ (AnyIn(modification_words, text) /\ ~AnyIn(confirmation_words, text))
                => after.current_state = "MODIFYING_PLAN"
             /\ (~AnyIn(confirmation_words, text) /\ ~AnyIn(modification_words, text))
                => after.current_state = "PRESENTING_RESULTS"
             /\ after.current_plan = store[last'.session].current_plan]_vars

\* C11, its case: a plan was presented and the answer holds a confirmation
\* keyword and a modification keyword; the plan is confirmed.
C11_witness ==
    /\ LastWasTurn /\ last.dispatched = Some("PRESENTING_RESULTS")
    /\ AnyIn(confirmation_words, last.user_input)
    /\ AnyIn(modification_words, last.user_input)
    /\ store[last.session].current_state = "PLAN_CONFIRMED"
    /\ store[last.session].current_plan /= None
\* The states _process_by_state has a handler of their own for.
HandledStates == {"INITIAL_PLANNING", "AWAITING_USER_SELECTION", "PRESENTING_RESULTS"}

\* C12: once a stored conversation is in PLAN_CONFIRMED, MODIFYING_PLAN or any
\* other state without a handler of its own, every handle_user_input on the
\* session is answered with the generic reply and leaves current_state as it
\* is, as does clear_conversation; only start_conversation takes the session
\* out of the state.
C12_unhandled_states_are_kept ==
    [][\A s \in DOMAIN store :
          store[s].current_state \notin HandledStates
          => /\ s \in DOMAIN store'
             /\ (store'[s].current_state /= store[s].current_state
                 => (last'.op = "start_conversation" /\ last'.session = s))
             /\ (last'.op = "handle_user_input" /\ last'.session = s)
                => /\ last'.outcome = "returned"
                   /\ last'.response = Some("processing")
                   /\ last'.conversation_state = Some(store[s].current_state)]_vars

\* C12, its case: a confirmation keyword sent to a conversation in
\* MODIFYING_PLAN, which stays there.
C12_witness ==
    /\ LastWasTurn /\ last.dispatched = Some("MODIFYING_PLAN")
    /\ AnyIn(confirmation_words, last.user_input)
    /\ store[last.session].current_state = "MODIFYING_PLAN"
\* ===================================================== interleaved sessions
\* Calls on several sessions, each suspended where the code awaits the
\* extractor (parse_user_query), the catalog (SuperAgent.search_spots) or the
\* planner (SuperAgent.create_plan), and resumed in any order.  One call at a
\* time is in flight on a session.
AsyncSessions == {"A", "B"}
MaxAsyncCalls == 3

\* The turns fed to the interleaved sessions.
AsyncInputs ==
    { <<Text_Full, Entities(Some(<<"Seoul">>), Some(0), Some(<<"naeil">>), {"munhwajae"})>>,
      <<Text_Cafe, Entities(None, None, None, {"kape"})>>,
      <<Text_Plan, NotADict>>,
      <<Text_1, NoEntities>>,
      <<Text_9, NoEntities>> }

\* A call in flight: where it waits (pc), what was called with what, what the
\* extractor is going to make of the text, and how many calls the session made.
Task(pc, op, user_input, entities, calls) ==
    [pc |-> pc, op |-> op, user_input |-> user_input, entities |-> entities, calls |-> calls]

\* The call on session s, back at its caller.
Returned(s) == [tasks EXCEPT ![s].pc = "idle"]

\* The call on session s, suspended at `pc`.
Suspended(s, pc) == [tasks EXCEPT ![s].pc = pc]

\* What a session holds: its conversation in the store, the one in the
\* agent's memory, and the UserQuery both refer to (None where there is none).
Held(store_conv, memory_conv, query) ==
    [store_conv |-> store_conv, memory_conv |-> memory_conv, query |-> query]

\* What session s holds now.
HeldBy(s) ==
    Held(IF s \in DOMAIN store THEN Some(store[s]) ELSE None,
         IF s \in DOMAIN conversation_memory THEN Some(conversation_memory[s]) ELSE None,
         IF s \in DOMAIN initial_query THEN Some(initial_query[s]) ELSE None)

\* start_conversation run from call to return on what a session holds.
StartAlone(held, entities) ==
    IF ~entities.is_dict THEN held
    ELSE Held(Some(start_conversation_run(entities).store_conv),
              Some(start_conversation_run(entities).memory_conv),
              Some(start_conversation_run(entities).query))

\* The store's conversation and the UserQuery after a handler ran.
HeldAfter(held, h) == [held EXCEPT !.store_conv = Some(h.conv), !.query = Some(h.query)]

\* handle_user_input run from call to return on what a session holds.
HandleAlone(held, user_input, entities) ==
    IF held.store_conv = None THEN StartAlone(held, entities)
    ELSE IF The(held.store_conv).current_state = "INITIAL_PLANNING" /\ ~entities.is_dict
         THEN held
         ELSE HeldAfter(held, handle_existing(The(held.store_conv), The(held.query),
                                              user_input, entities))

\* One call run alone.
RunAlone(held, op, user_input, entities) ==
    IF op = "start_conversation" THEN StartAlone(held, entities)
    ELSE HandleAlone(held, user_input, entities)

AsyncInit ==
    /\ conversation_memory = <<>>
    /\ store = <<>>
    /\ initial_query = <<>>
    /\ last = Call("none", "A", <<>>, FALSE, None, "returned", None, None, None,
                   FALSE, 0, FALSE)
    /\ tasks = [s \in AsyncSessions |-> Task("idle", "none", <<>>, NoEntities, 0)]
    /\ alone = [s \in AsyncSessions |-> Held(None, None, None)]
    /\ date_plan = None
    /\ plan_call = NoPlanCall
    /\ extracted = NoEntities
    /\ confidence_score = 0

\* A call is made on session s: the code runs up to its first await.
\* start_conversation, and handle_user_input for a session the store does not
\* hold, await parse_user_query at once (line 186); _handle_initial_planning
\* does too (line 350); _handle_user_selection awaits the planner once it has
\* written selected_spots (lines 417-418), and returns without an await when
\* nothing is selected; the other handlers have no await.
AsyncCall(s, op, user_input, entities) ==
    /\ tasks[s].pc = "idle"
    /\ tasks[s].calls < MaxAsyncCalls
    /\ alone' = [alone EXCEPT ![s] = RunAlone(@, op, user_input, entities)]
    /\ UNCHANGED <<conversation_memory, initial_query, last>>
    /\ \E t \in {Task("idle", op, user_input, entities, tasks[s].calls + 1)} :
          IF op = "start_conversation" \/ s \notin DOMAIN store
          THEN /\ tasks' = [tasks EXCEPT ![s] = [t EXCEPT !.pc = "start_extract"]]
               /\ UNCHANGED store
          ELSE IF store[s].current_state = "INITIAL_PLANNING"
          THEN /\ tasks' = [tasks EXCEPT ![s] = [t EXCEPT !.pc = "extract"]]
               /\ UNCHANGED store
          ELSE IF /\ store[s].current_state = "AWAITING_USER_SELECTION"
                  /\ resolve_selections(parse_selections(user_input),
                                        Get(store[s].collected_data, "candidate_spots",
                                            <<>>)) /= <<>>
          THEN /\ tasks' = [tasks EXCEPT ![s] = [t EXCEPT !.pc = "plan"]]
               /\ store' = [store EXCEPT ![s] =
                     update_collected_data(@, "selected_spots",
                         resolve_selections(parse_selections(user_input),
                                            Get(@.collected_data, "candidate_spots", <<>>)))]
          ELSE /\ tasks' = [tasks EXCEPT ![s] = t]
               /\ store' = [store EXCEPT ![s] =
                     handle_existing(@, initial_query[s], user_input, entities).conv]

\* start_conversation resumes with the extraction (lines 186-197): a value
\* that is no dict raises; otherwise both conversations are stored, and the
\* call goes on to the search or, with too little to search for, raises on
\* ConversationState.AWAITING_USER_INPUT (line 245).
AsyncStartExtracted(s) ==
    /\ tasks[s].pc = "start_extract"
    /\ UNCHANGED <<last, alone>>
    /\ IF ~tasks[s].entities.is_dict
       THEN /\ tasks' = Returned(s)
            /\ UNCHANGED <<conversation_memory, store, initial_query>>
       ELSE \E user_query \in {parse_user_query(tasks[s].entities)} :
            /\ store' = Put(store, s, NewConversation)
            /\ conversation_memory' = Put(conversation_memory, s, NewConversation)
            /\ initial_query' = Put(initial_query, s, user_query)
            /\ tasks' = IF TruthyStr(user_query.location) /\ get_interests(user_query) /= {}
                        THEN Suspended(s, "start_search") ELSE Returned(s)

\* start_conversation resumes with the spots (lines 206-218): with none it
\* raises (line 215, again at 236), otherwise it calls the planner.
AsyncStartSearched(s) ==
    /\ tasks[s].pc = "start_search"
    /\ UNCHANGED <<conversation_memory, store, initial_query, last, alone>>
    /\ tasks' = IF search_spots(The(initial_query[s].location),
                                get_interests(initial_query[s]),
                                IF initial_query[s].budget /= None
                                THEN The(initial_query[s].budget) ELSE 0) = <<>>
                THEN Returned(s) ELSE Suspended(s, "start_plan")

\* start_conversation resumes with the plan and raises (line 231, again at 236).
AsyncStartPlanned(s) ==
    /\ tasks[s].pc = "start_plan"
    /\ UNCHANGED <<conversation_memory, store, initial_query, last, alone>>
    /\ tasks' = Returned(s)

\* _handle_initial_planning resumes with the extraction (lines 350-369): the
\* merge, then the search, or the clarification request and the Turn.
AsyncExtracted(s) ==
    /\ tasks[s].pc = "extract"
    /\ UNCHANGED <<conversation_memory, last, alone>>
    /\ IF ~tasks[s].entities.is_dict
       THEN /\ tasks' = Returned(s)
            /\ UNCHANGED <<store, initial_query>>
       ELSE \E merged \in {merge_query(initial_query[s], parse_user_query(tasks[s].entities))} :
            /\ initial_query' = [initial_query EXCEPT ![s] = merged]
            /\ IF is_complete(merged)
               THEN /\ tasks' = Suspended(s, "search")
                    /\ UNCHANGED store
               ELSE /\ tasks' = Returned(s)
                    /\ store' = [store EXCEPT ![s] =
                          record_turn(Handled(@, merged, "clarification_request",
                                              "INITIAL_PLANNING", FALSE, 0, FALSE),
                                      tasks[s].user_input).conv]

\* _handle_initial_planning resumes with the spots (lines 371-383), and
\* handle_user_input records the Turn.
AsyncSearched(s) ==
    /\ tasks[s].pc = "search"
    /\ UNCHANGED <<conversation_memory, initial_query, last, alone>>
    /\ tasks' = Returned(s)
    /\ store' = [store EXCEPT ![s] =
          record_turn(offer_candidates(@, initial_query[s],
                          search_spots(The(initial_query[s].location),
                                       get_interests(initial_query[s]),
                                       IntOrZero(initial_query[s].budget))),
                      tasks[s].user_input).conv]

\* _handle_user_selection once the planner returned (lines 421-427).
present_plan(conv, query, plan) ==
    Handled(clear_awaiting_input(
                update_state([conv EXCEPT !.current_plan = Some(plan)], "PRESENTING_RESULTS")),
            query, "plan_summary", "PRESENTING_RESULTS", FALSE, 0, TRUE)

\* _handle_user_selection resumes with the plan, and handle_user_input
\* records the Turn.
AsyncPlanned(s) ==
    /\ tasks[s].pc = "plan"
    /\ UNCHANGED <<conversation_memory, initial_query, last, alone>>
    /\ tasks' = Returned(s)
    /\ store' = [store EXCEPT ![s] =
          record_turn(present_plan(@, initial_query[s],
                          create_date_plan(@.collected_data["selected_spots"],
                                           initial_query[s].preferences)),
                      tasks[s].user_input).conv]

AsyncNext ==
    \/ \E s \in AsyncSessions, in \in AsyncInputs,
          op \in {"start_conversation", "handle_user_input"} :
              AsyncCall(s, op, in[1], in[2]) /\ UNCHANGED <<planner_vars, confidence_vars>>
    \/ \E s \in AsyncSessions : AsyncStartExtracted(s) /\ UNCHANGED <<planner_vars, confidence_vars>>
    \/ \E s \in AsyncSessions : AsyncStartSearched(s) /\ UNCHANGED <<planner_vars, confidence_vars>>
    \/ \E s \in AsyncSessions : AsyncStartPlanned(s) /\ UNCHANGED <<planner_vars, confidence_vars>>
    \/ \E s \in AsyncSessions : AsyncExtracted(s) /\ UNCHANGED <<planner_vars, confidence_vars>>
    \/ \E s \in AsyncSessions : AsyncSearched(s) /\ UNCHANGED <<planner_vars, confidence_vars>>
    \/ \E s \in AsyncSessions : AsyncPlanned(s) /\ UNCHANGED <<planner_vars, confidence_vars>>

SpecAsync == AsyncInit /\ [][AsyncNext]_<<vars, async_vars>>

\* What a step can change of session s.
AsyncEntry(s) == <<tasks[s], alone[s], HeldBy(s)>>

\* C13: turns on different session ids do not interfere when their processing
\* is interleaved at the extractor, catalog and planner suspension points:
\* every step of a call changes what one session holds and leaves every other
\* session's conversation (state, Query, turns, collected data, plan) as it
\* was, and a session with no call in flight holds what its calls give when
\* they run alone, from call to return.
C13_sessions_do_not_interfere ==
    /\ [](\A s \in AsyncSessions : tasks[s].pc = "idle" => HeldBy(s) = alone[s])
    /\ [][\E a \in AsyncSessions :
             \A b \in AsyncSessions \ {a} : AsyncEntry(b)' = AsyncEntry(b)]_<<vars, async_vars>>

\* C13, its case: a plan is presented on session A, whose three calls are
\* over, while session B's first turn still waits for the catalog.
C13_witness ==
    /\ tasks["A"].pc = "idle" /\ tasks["A"].calls = 3
    /\ "A" \in DOMAIN store /\ store["A"].current_state = "PRESENTING_RESULTS"
    /\ tasks["B"].pc = "search" /\ tasks["B"].calls = 2
\* ============================================================== the planner
\* A caller that has SchedulePlanner build a plan and then changes it, through
\* DatePlan.add_item and remove_item and SchedulePlanner.modify_plan.
MaxPlanOps == 2

\* The spot lists handed to create_date_plan: none, one venue, the catalog's
\* answer for Seoul, the two of the unit test, five venues, seven spots in
\* Seoul, and the caller's own day-long spots.
PlanSpotLists ==
    {<<>>, <<1>>, <<2, 1, 3, 4>>, <<1, 3>>, <<3, 4, 5, 1, 2>>, <<1, 2, 3, 4, 5, 8, 9>>,
     <<8, 9, 10>>}

\* The user_preferences handed to create_date_plan: the dict the dialog
\* hands over (interests only), the unit test's, and others with a budget.
PlanPreferences ==
    { [interests |-> {"kape"}],
      [start_time |-> ClockText(10, 0), budget |-> Num(50000),
       interests |-> {"munhwajae", "kape"}],
      [budget |-> Num(9000)],
      [budget |-> Num(200000), start_time |-> ClockText(23, 30)],
      [budget |-> Num(100000), start_time |-> <<"si", "pm", 9>>],
      [budget |-> Num(0), start_time |-> <<"text">>],
      [budget |-> Num(50000), start_time |-> ClockText(24, 0)] }

\* The items a caller adds.
PlanItems == {DatePlanItem(600, 700, 3), DatePlanItem(1400, 20, 1)}

\* The parameters of a spot replacement.
ReplaceParameters ==
    { [spot_id |-> Some(<<"seoul", "_", "001">>), alternatives |-> <<4, 5>>],
      [spot_id |-> Some(<<"seoul", "_", "003">>), alternatives |-> <<5>>],
      [spot_id |-> Some(<<"seoul", "_", "001">>)],
      [alternatives |-> <<5>>] }

\* The parameters of a pace adjustment.
TimingParameters == {[pace |-> "relaxed"], [pace |-> "tight"], <<>>}

\* The parameters of a budget adjustment.
BudgetParameters ==
    { [target_budget |-> 0], [target_budget |-> 10000],
      [target_budget |-> 40000, direction |-> "decrease"],
      [target_budget |-> 0, direction |-> "increase"],
      <<>> }

PlannerInit ==
    /\ conversation_memory = <<>>
    /\ store = <<>>
    /\ initial_query = <<>>
    /\ last = Call("none", "s1", <<>>, FALSE, None, "returned", None, None, None,
                   FALSE, 0, FALSE)
    /\ tasks = <<>>
    /\ alone = <<>>
    /\ date_plan = None
    /\ plan_call = NoPlanCall
    /\ extracted = NoEntities
    /\ confidence_score = 0

\* What the caller holds after a change of its plan.
Changed(op, new_plan) ==
    /\ date_plan /= None
    /\ plan_call.n < MaxPlanOps
    /\ date_plan' = Some(new_plan)
    /\ plan_call' = PlanCall(op, plan_call.n + 1, plan_call.spots, plan_call.user_preferences,
                             plan_call.budget, 0, "none", 0, TRUE)
    /\ UNCHANGED <<vars, async_vars, confidence_vars>>

CreateDatePlan(spots, user_preferences) ==
    /\ date_plan = None
    /\ date_plan' = Some(create_date_plan(spots, user_preferences))
    /\ plan_call' = PlanCall("create_date_plan", 0, spots, user_preferences,
                             Get(user_preferences, "budget", Inf), 0, "none", 0, TRUE)
    /\ UNCHANGED <<vars, async_vars, confidence_vars>>

AddItem(item) == Changed("add_item", add_item(The(date_plan), item))

RemoveItem(index) == Changed("remove_item", remove_item(The(date_plan), index))

ReplaceSpots(parameters) == Changed("spot_replacement", replace_spots(The(date_plan), parameters))

AdjustTiming(parameters) == Changed("time_adjustment", adjust_timing(The(date_plan), parameters))

AdjustBudget(parameters) ==
    /\ date_plan /= None
    /\ plan_call.n < MaxPlanOps
    /\ \E r \in {adjust_budget(The(date_plan), parameters)} :
          /\ date_plan' = Some(r.plan)
          /\ plan_call' = PlanCall("budget_adjustment", plan_call.n + 1, plan_call.spots,
                                   plan_call.user_preferences, plan_call.budget,
                                   Get(parameters, "target_budget",
                                       The(date_plan).total_estimated_cost),
                                   Get(parameters, "direction", "decrease"),
                                   r.iterations, r.terminated)
    /\ UNCHANGED <<vars, async_vars, confidence_vars>>

PlannerNext ==
    \/ \E spots \in PlanSpotLists, prefs \in PlanPreferences : CreateDatePlan(spots, prefs)
    \/ \E item \in PlanItems : AddItem(item)
    \/ \E index \in {-1, 0, 1, 5} : RemoveItem(index)
    \/ \E parameters \in ReplaceParameters : ReplaceSpots(parameters)
    \/ \E parameters \in TimingParameters : AdjustTiming(parameters)
    \/ \E parameters \in BudgetParameters : AdjustBudget(parameters)

SpecPlanner == PlannerInit /\ [][PlannerNext]_<<vars, async_vars, planner_vars, confidence_vars>>
\* ------------------------------------------------------------------- C14
\* After(op): the caller's last call was op and left it a plan.
After(op) == date_plan /= None /\ plan_call.op = op

\* C14: in the plan create_date_plan returns, and after each of add_item,
\* remove_item, a spot replacement, a pace adjustment and a budget trim, in
\* whatever order they were made, total_estimated_cost is the sum of the
\* items' costs and total_duration_minutes the sum of their durations.
C14_totals_are_sums ==
    date_plan /= None =>
        /\ The(date_plan).total_estimated_cost = SumCost(The(date_plan).items)
        /\ The(date_plan).total_duration_minutes = SumDuration(The(date_plan).items)

\* An item was added to a plan that had already been changed once, and the
\* plan now costs something.
C14_witness ==
    /\ After("add_item")
    /\ plan_call.n = 2
    /\ Len(The(date_plan).items) >= 2
    /\ The(date_plan).total_estimated_cost > 0
\* ------------------------------------------------------------------- C15
\* Covers(item, t): minute t of the day lies in the item's [start, end), an
\* end earlier than its start read as crossing midnight.
Covers(item, t) ==
    IF item.end_time < item.start_time
    THEN t >= item.start_time \/ t < item.end_time
    ELSE item.start_time <= t /\ t < item.end_time

Overlap(item, other) == \E t \in 0..(MinutesPerDay - 1) : Covers(item, t) /\ Covers(other, t)

\* C15: in the plan create_date_plan returns, whatever the start time and the
\* (positive) durations of the spots, no two items' [start, end) intervals
\* overlap and has_time_conflicts() lists no pair.
C15_no_two_items_overlap ==
    After("create_date_plan") =>
        /\ \A i, j \in 1..Len(The(date_plan).items) :
               i < j => ~Overlap(The(date_plan).items[i], The(date_plan).items[j])
        /\ has_time_conflicts(The(date_plan)) = {}
\* ------------------------------------------------------------------- C16
\* Trim: this step is a call of _adjust_budget with direction "decrease".
Trim ==
    /\ date_plan /= None
    /\ plan_call'.op = "budget_adjustment"
    /\ plan_call'.n = plan_call.n + 1
    /\ plan_call'.direction = "decrease"

\* C16: a budget trim comes to an end; it does not take the last item of a
\* plan; when it returns, the plan costs at most the target or has exactly one
\* item left; and a plan that was at or under the target keeps its items.
C16_trim_ends_and_keeps_one ==
    [][Trim =>
        /\ plan_call'.terminated
        /\ plan_call'.iterations <= Len(The(date_plan).items)
        /\ Len(The(date_plan).items) >= 1 => Len(The(date_plan').items) >= 1
        /\ \/ The(date_plan').total_estimated_cost <= plan_call'.target_budget
           \/ Len(The(date_plan').items) = 1
        /\ The(date_plan).total_estimated_cost <= plan_call'.target_budget
               => The(date_plan').items = The(date_plan).items
      ]_<<vars, async_vars, planner_vars, confidence_vars>>

\* A trim took two items or more and stopped at the last one, which still
\* costs more than the target.
C16_witness ==
    /\ After("budget_adjustment")
    /\ plan_call.direction = "decrease"
    /\ plan_call.iterations >= 2
    /\ Len(The(date_plan).items) = 1
    /\ The(date_plan).total_estimated_cost > plan_call.target_budget
\* ------------------------------------------------------------------- C17
\* C17: the plan create_date_plan returns for preferences that carry a finite
\* budget costs at most that budget.
C17_plan_within_budget ==
    (After("create_date_plan") /\ plan_call.budget[1] = "num") =>
        The(date_plan).total_estimated_cost <= plan_call.budget[2]
\* ------------------------------------------------------------------- C18
\* TurnStep: this step is a handle_user_input on a stored conversation that
\* returned, and so recorded a Turn.
TurnStep ==
    /\ last'.op = "handle_user_input" /\ last'.existed
    /\ last'.outcome = "returned"
    /\ last'.session \in DOMAIN store

\* The type the keyword classification gives a text.
KeywordType(user_input) ==
    determine_interaction_type(NewConversation, user_input)

\* C18: the interaction type recorded on a Turn is the expected input type
\* when the conversation was awaiting input as the text arrived (a text that
\* arrives while a selection is awaited is recorded SELECTION_REQUIRED, whether
\* or not it selects anything), and the keyword classification of the text
\* when no input was awaited.
C18_type_follows_state_on_arrival ==
    [][TurnStep
       => LET before == store[last'.session]
              after == store'[last'.session]
              turn == after.turns[Len(after.turns)]
          IN IF before.awaiting_user_input /\ before.expected_input_type /= None
             THEN turn.interaction_type = The(before.expected_input_type)
             ELSE turn.interaction_type = KeywordType(last'.user_input)]_vars
\* ===================================================== a planner that fails
\* handle_user_input on a conversation that awaits a selection, when the text
\* selects a candidate and SuperAgent.create_plan raises: selected_spots has
\* been written, nothing after the await runs, and nothing between the await
\* and the caller catches the exception.
HandleUserInputPlanFails(s, user_input) ==
    /\ s \in DOMAIN store
    /\ Len(store[s].turns) < MaxTurns
    /\ store[s].current_state = "AWAITING_USER_SELECTION"
    /\ \E selected \in {resolve_selections(parse_selections(user_input),
                                           Get(store[s].collected_data,
                                               "candidate_spots", <<>>))} :
          /\ selected /= <<>>
          /\ store' = Put(store, s, update_collected_data(store[s], "selected_spots",
                                                          selected))
    /\ UNCHANGED <<conversation_memory, initial_query>>
    /\ last' = Call("handle_user_input", s, user_input, TRUE,
                    Some(store[s].current_state), "raised", None, None, None,
                    FALSE, 0, FALSE)

PlanFails ==
    \E s \in Sessions, in \in Inputs :
        HandleUserInputPlanFails(s, in[1]) /\ UNCHANGED <<async_vars, planner_vars, confidence_vars>>

FaultyNext ==
    \/ \E s \in Sessions, in \in Inputs :
          StartConversation(s, in[1], in[2]) /\ UNCHANGED <<async_vars, planner_vars, confidence_vars>>
    \/ \E s \in Sessions, in \in Inputs :
          HandleUserInput(s, in[1], in[2]) /\ UNCHANGED <<async_vars, planner_vars, confidence_vars>>
    \/ \E s \in Sessions : ClearConversation(s) /\ UNCHANGED <<async_vars, planner_vars, confidence_vars>>
    \/ PlanFails

SpecFaulty == Init /\ [][FaultyNext]_vars

\* ------------------------------------------------------------------- C19
\* C19: when plan construction raises while handle_user_input works on a
\* selection, handle_user_input still returns, with the try-again message,
\* and leaves the conversation awaiting input in a state of the enumeration,
\* with collected data that fit that state: no selected spots without a plan.
C19_plan_failure_is_recovered ==
    [][PlanFails
       => /\ last'.outcome = "returned"
          /\ last'.response = Some("try_again")
          /\ LET after == store'[last'.session]
             IN /\ after.current_state \in ConversationState
                /\ after.awaiting_user_input
                /\ "selected_spots" \in DOMAIN after.collected_data
                       => after.current_plan /= None]_vars
\* ===================================================== a failed extraction
\* _extract_entities_with_gemini returns {} when there is no model, when the
\* call throws and when the answer holds no JSON: the model's NoEntities.
\* parse_user_query, the `parsed` flag it sets: the dict was not empty.
query_parsed(entities) == entities /= NoEntities

\* A confidence with the weights of location and budget exchanged.
calculate_confidence_budget_first(entities) ==
    Min(100, (IF TruthyStr(entities.location) THEN 10 ELSE 0)
             + (IF TruthyStr(entities.date) THEN 25 ELSE 0)
             + (IF entities.interests /= {} THEN 20 ELSE 0)
             + (IF entities.budget /= None THEN 35 ELSE 0))

\* DialogAgent._calculate_confidence_from_gemini, in hundredths.
calculate_confidence_from_gemini(entities) ==
    Min(100, (IF TruthyStr(entities.location) THEN 35 ELSE 0)
             + (IF TruthyStr(entities.date) THEN 25 ELSE 0)
             + (IF entities.interests /= {} THEN 20 ELSE 0)
             + (IF entities.budget /= None THEN 10 ELSE 0))

\* parse_user_query, the confidence_score it sets.
query_confidence_score(entities) ==
    IF query_parsed(entities) THEN calculate_confidence_from_gemini(entities) ELSE 0

\* The responses that ask the user for what is missing.
ClarificationPrompts == {"clarification_request", "ask_location", "ask_interests"}

\* ------------------------------------------------------------------- C20
\* FailedExtractionStep: this step is a call that parses its text, and the
\* extraction of that text failed.
FailedExtractionStep ==
    \E s \in Sessions, in \in Inputs :
        /\ in[2] = NoEntities
        /\ \/ StartConversation(s, in[1], in[2])
           \/ /\ s \in DOMAIN store => store[s].current_state = "INITIAL_PLANNING"
              /\ HandleUserInput(s, in[1], in[2])

\* C20: when the extractor is not there, throws or answers with no JSON, the
\* UserQuery of parse_user_query has no location, budget, date or interests,
\* parsed false and confidence 0, and the call that parsed the text returns a
\* clarification prompt and a state of the enumeration; it never raises.
C20_failed_extraction_asks_again ==
    [][FailedExtractionStep
       => /\ parse_user_query(NoEntities).location = None
          /\ parse_user_query(NoEntities).budget = None
          /\ parse_user_query(NoEntities).date = None
          /\ get_interests(parse_user_query(NoEntities)) = {}
          /\ ~query_parsed(NoEntities)
          /\ query_confidence_score(NoEntities) = 0
          /\ last'.outcome = "returned"
          /\ last'.response /= None /\ The(last'.response) \in ClarificationPrompts
          /\ IsState(last'.conversation_state)]_vars
\* ------------------------------------------------------------------- C21
\* C21: no stored conversation is in PRESENTING_RESULTS with a current_plan
\* of zero items; a selection whose venues the planner's filter all drops is
\* answered as no results, not as a plan.
C21_no_empty_plan_is_presented ==
    \A s \in DOMAIN store :
        (store[s].current_state = "PRESENTING_RESULTS" /\ store[s].current_plan /= None)
            => Len(The(store[s].current_plan).items) > 0
\* ------------------------------------------------------------------- C22
\* C22: on a turn handled in INITIAL_PLANNING nothing the extractor returned
\* is lost: a location, budget or date it returned while the running Query
\* had none is in the running Query after the turn, and the running interests
\* are the union of the previous interests and the turn's.
C22_nothing_extracted_is_lost ==
    [][\A s \in Sessions, in \in Inputs :
          (/\ s \in DOMAIN store
           /\ store[s].current_state = "INITIAL_PLANNING"
           /\ in[2].is_dict
           /\ HandleUserInput(s, in[1], in[2]))
          => LET before == initial_query[s]
                 after == initial_query'[s]
                 turn == parse_user_query(in[2])
             IN /\ (before.location = None /\ turn.location /= None)
                       => after.location = turn.location
                /\ (before.budget = None /\ turn.budget /= None)
                       => after.budget = turn.budget
                /\ (before.date = None /\ turn.date /= None)
                       => after.date = turn.date
                /\ get_interests(after) = get_interests(before) \cup get_interests(turn)]_vars
\* =========================================================== selections
\* The dialog of Spec, fed with the texts a user answers a list of candidates
\* with: numbers in and out of range, repeated numbers, names of candidates
\* ("N beon" is "N번", "gallaeyo" is "갈래요").
SelectInputs ==
    { <<Text_Plan, Entities(Some(<<"Seoul">>), None, None, {})>>,
      <<Text_Cafe, Entities(None, None, None, {"kape"})>>,
      <<Text_Full, Entities(Some(<<"Seoul">>), Some(0), Some(<<"naeil">>), {"munhwajae"})>>,
      <<<<"0", "beon">>, NoEntities>>,
      <<Text_1, NoEntities>>,
      <<Text_9, NoEntities>>,
      <<<<"1", "beon", " ", "2", "beon">>, NoEntities>>,
      <<<<"1", "beon", " ", "1", "beon">>, NoEntities>>,
      <<<<"0", "beon", " ", "9", "beon">>, NoEntities>>,
      <<<<"2", "beon", " ", "9", "beon">>, NoEntities>>,
      <<Text_Gyeongbokgung, NoEntities>>,
      <<<<"1", "beon", " ", "Gyeongbokgung">>, NoEntities>>,
      <<<<"2", "beon", " ", "Gyeongbokgung">>, NoEntities>>,
      <<<<"Changdeokgung">>, NoEntities>>,
      <<<<"Insadong", " ", "gallaeyo">>, NoEntities>> }

SelectNext ==
    \/ \E s \in Sessions, in \in SelectInputs :
          StartConversation(s, in[1], in[2]) /\ UNCHANGED <<async_vars, planner_vars, confidence_vars>>
    \/ \E s \in Sessions, in \in SelectInputs :
          HandleUserInput(s, in[1], in[2]) /\ UNCHANGED <<async_vars, planner_vars, confidence_vars>>

SpecSelect == Init /\ [][SelectNext]_vars
\* ------------------------------------------------------------------- C23
\* The numbers written in a text, and whether it names one of the places.
NumbersIn(text) == {NumberValue[text[i]] : i \in {j \in 1..Len(text) : text[j] \in DOMAIN NumberValue}}
NamesAPlace(text) == \E i \in 1..Len(places) : Contains(text, places[i])
Range(seq) == {seq[i] : i \in 1..Len(seq)}

\* C23: while a selection among n candidates is awaited, each number k of the
\* text with 1 <= k <= n selects the k-th candidate; a number outside 1..n, 0
\* among them, selects nothing and raises nothing; a text whose only
\* references are numbers out of range selects nothing and is re-prompted.
C23_numbers_select_by_position ==
    [][TurnStepIn("AWAITING_USER_SELECTION")
       => LET before == store[last'.session]
              after == store'[last'.session]
              candidates == Get(before.collected_data, "candidate_spots", <<>>)
              in_range == {k \in NumbersIn(last'.user_input) : 1 <= k /\ k <= Len(candidates)}
              selected == Get(after.collected_data, "selected_spots", <<>>)
          IN /\ last'.outcome = "returned"
             /\ \A k \in in_range : candidates[k] \in Range(selected)
             /\ (~NamesAPlace(last'.user_input) /\ NumbersIn(last'.user_input) /= {})
                => /\ Range(selected) = {candidates[k] : k \in in_range}
                   /\ in_range = {}
                      => /\ last'.response = Some("number_not_understood")
                         /\ after.current_state = "AWAITING_USER_SELECTION"
                         /\ after.awaiting_user_input]_vars

\* C23, its case: of a number in range and a number out of range, sent while
\* candidates are offered, the first alone selected its candidate.
C23_witness ==
    /\ LastWasTurn /\ last.dispatched = Some("AWAITING_USER_SELECTION")
    /\ last.user_input = <<"2", "beon", " ", "9", "beon">>
    /\ Len(store[last.session].collected_data["candidate_spots"]) >= 2
    /\ store[last.session].collected_data["selected_spots"]
           = <<store[last.session].collected_data["candidate_spots"][2]>>
\* ------------------------------------------------------------------- C24
\* C24: while a selection is awaited, a text that names a stored candidate
\* (it holds the candidate's name, or is the beginning of it) and no number
\* selects that candidate, whichever candidate of the stored list it is.
C24_a_name_selects_its_candidate ==
    [][TurnStepIn("AWAITING_USER_SELECTION")
       => LET candidates == Get(store[last'.session].collected_data, "candidate_spots", <<>>)
              selected == Get(store'[last'.session].collected_data, "selected_spots", <<>>)
              text == last'.user_input
          IN \A i \in 1..Len(candidates) :
                (\/ Contains(text, Spot(candidates[i]).name)
                 \/ (text /= <<>> /\ StartsWith(Spot(candidates[i]).name, text)))
                => candidates[i] \in Range(selected)]_vars

\* ------------------------------------------------------------------- C25
\* C25: selected_spots is a set: no candidate is in it twice, nor in the plan
\* built from it, also when the text refers to a candidate twice.
C25_selection_is_a_set ==
    \A s \in DOMAIN store :
        LET selected == Get(store[s].collected_data, "selected_spots", <<>>)
            items == IF store[s].current_plan = None THEN <<>>
                     ELSE The(store[s].current_plan).items
        IN /\ \A i, j \in 1..Len(selected) : i /= j => selected[i] /= selected[j]
           /\ \A i, j \in 1..Len(items) : i /= j => items[i].spot /= items[j].spot
\* ------------------------------------------------------------------- C26
\* C26: the Turns of a stored conversation chain and stay as appended: the
\* first Turn's state_before is INITIAL_PLANNING, each later Turn's
\* state_before is the state_after of the Turn before it, and a step that
\* keeps the conversation leaves the Turns it already had unchanged.
C26_turns_chain ==
    /\ [](\A s \in DOMAIN store :
             LET turns == store[s].turns
             IN /\ turns /= <<>> => turns[1].state_before = Some("INITIAL_PLANNING")
                /\ \A i \in 1..(Len(turns) - 1) :
                      turns[i + 1].state_before = turns[i].state_after)
    /\ [][\A s \in DOMAIN store :
             (s \in DOMAIN store' /\ Len(store'[s].turns) >= Len(store[s].turns))
             => \A i \in 1..Len(store[s].turns) : store'[s].turns[i] = store[s].turns[i]]_vars
\* ------------------------------------------------------------------- C27
\* The items of `before` that are not in `after`, `after` being `before` with
\* some items taken out.
RECURSIVE Removed(_, _)
Removed(before, after) ==
    IF before = <<>> THEN <<>>
    ELSE IF after /= <<>> /\ Head(before) = Head(after)
         THEN Removed(Tail(before), Tail(after))
         ELSE <<Head(before)>> \o Removed(Tail(before), after)

\* C27: each removal of a budget trim takes an item whose get_total_cost is
\* the highest among the items then remaining, so every item a trim took
\* costs at least as much as every item it left in the plan.
C27_trim_takes_the_dearest ==
    [][Trim
       => LET kept == The(date_plan').items
              taken == Removed(The(date_plan).items, kept)
          IN \A i \in 1..Len(taken), j \in 1..Len(kept) :
                get_total_cost(taken[i]) >= get_total_cost(kept[j])
      ]_<<vars, async_vars, planner_vars, confidence_vars>>
\* ------------------------------------------------------------------- C28
\* How often x occurs in seq.
RECURSIVE Count(_, _)
Count(seq, x) ==
    IF seq = <<>> THEN 0
    ELSE (IF Head(seq) = x THEN 1 ELSE 0) + Count(Tail(seq), x)

\* The spots of the caller's plan, in the order of its items.
Placed == [i \in 1..Len(The(date_plan).items) |-> The(date_plan).items[i].spot]

\* What create_date_plan handed to _optimize_visit_order.
VisitInput ==
    optimize_spots(plan_call.spots, plan_call.budget, plan_call.user_preferences)

\* C28: the visit order of a created plan is a permutation of the list
\* _optimize_visit_order was given, starts with that list's first spot, and
\* every later spot is, among the spots not yet placed, one at minimal
\* distance from the spot placed just before it; a list of zero or one spot
\* comes back unchanged.
C28_visit_order_is_nearest_first ==
    After("create_date_plan")
    => /\ Len(Placed) = Len(VisitInput)
       /\ \A x \in Range(Placed) \cup Range(VisitInput) :
             Count(Placed, x) = Count(VisitInput, x)
       /\ Len(VisitInput) >= 1 => Placed[1] = VisitInput[1]
       /\ \A i \in 2..Len(Placed), j \in 2..Len(Placed) :
             j >= i => DistSq(Placed[i - 1], Placed[i]) <= DistSq(Placed[i - 1], Placed[j])
       /\ Len(VisitInput) <= 1 => Placed = VisitInput

\* A created plan of three or more spots whose order is not the order they
\* were handed over in.
C28_witness ==
    /\ After("create_date_plan")
    /\ Len(Placed) >= 3
    /\ Placed /= VisitInput

\* ------------------------------------------------------------------- C29
\* The plan was created for a finite budget.
FiniteBudget == After("create_date_plan") /\ plan_call.budget[1] = "num"

\* The spots create_date_plan was given that three times cost at most the budget.
Affordable == {x \in Range(plan_call.spots) : Spot(x).estimated_cost * 3 <= plan_call.budget[2]}

\* C29: a plan created for a finite budget has at most 5 items, every item is
\* one of the spots handed in and costs at most a third of the budget, and no
\* affordable spot left out of the plan scores strictly higher than a spot
\* that is in it.
C29_the_best_affordable_five ==
    FiniteBudget
    => /\ Len(Placed) <= 5
       /\ Range(Placed) \subseteq Affordable
       /\ \A x \in Affordable \ Range(Placed), y \in Range(Placed) :
             calculate_spot_score(x, plan_call.user_preferences)
                <= calculate_spot_score(y, plan_call.user_preferences)

\* A plan of five items created for a finite budget that leaves out an
\* affordable spot.
C29_witness ==
    /\ FiniteBudget
    /\ Len(Placed) = 5
    /\ Affordable \ Range(Placed) /= {}

\* ------------------------------------------------------------------- C30
\* The minutes on the clock from time of day a to time of day b.
ClockFrom(a, b) == (b - a + MinutesPerDay) % MinutesPerDay

\* The start_time preference create_date_plan read, "10:00" when there is none.
StartPreference == Get(plan_call.user_preferences, "start_time", ClockText(10, 0))

\* The preference is missing or is no time of day.
NoStartTime ==
    \/ "start_time" \notin DOMAIN plan_call.user_preferences
    \/ StartPreference[1] = "text"
    \/ (StartPreference[1] = "iso" /\ StartPreference[2] \notin 0..23)

\* C30: in a created plan the first item starts at the parsed start time,
\* which is 10:00 when the preference is missing or cannot be parsed; every
\* item ends its spot's estimated duration plus 15 minutes after it starts;
\* and every later item starts 30 minutes after the item before it ends.
C30_time_slots ==
    After("create_date_plan")
    => LET items == The(date_plan).items
       IN /\ Len(items) >= 1
             => /\ items[1].start_time = parse_start_time(StartPreference)
                /\ (NoStartTime => items[1].start_time = 10 * 60)
          /\ \A i \in 1..Len(items) :
                ClockFrom(items[i].start_time, items[i].end_time)
                   = (Spot(items[i].spot).estimated_duration + 15) % MinutesPerDay
          /\ \A i \in 2..Len(items) :
                ClockFrom(items[i - 1].end_time, items[i].start_time) = 30

\* A created plan of three or more items that starts at the parsed 23:30 and
\* goes on past midnight.
C30_witness ==
    /\ After("create_date_plan")
    /\ Len(The(date_plan).items) >= 3
    /\ StartPreference = ClockText(23, 30)
    /\ The(date_plan).items[1].start_time = 23 * 60 + 30
    /\ The(date_plan).items[1].end_time < The(date_plan).items[1].start_time

\* ------------------------------------------------------------------- C31
\* The step is a pace adjustment of the caller's plan with this pace.
Paced(pace) == AdjustTiming([pace |-> pace])

\* C31: a 'tight' pace adjustment makes no item's duration larger, and makes
\* every item that lasted more than 20 minutes exactly 20 minutes shorter,
\* also when the item crosses midnight.
C31_tight_shortens_every_item ==
    [][Paced("tight")
       => LET before == The(date_plan).items
              after == The(date_plan').items
          IN \A i \in 1..Len(before) :
                /\ get_duration_minutes(after[i]) <= get_duration_minutes(before[i])
                /\ get_duration_minutes(before[i]) > 20
                      => get_duration_minutes(after[i]) = get_duration_minutes(before[i]) - 20
      ]_<<vars, async_vars, planner_vars, confidence_vars>>

\* ------------------------------------------------------------------- C32
\* The travel time after an item: its outbound transportation's duration, 30
\* when it has none.
GapAfter(item) ==
    IF item.transportation_to_next /= None
    THEN The(item.transportation_to_next).duration ELSE 30

Matching(items, parameters) ==
    {i \in 1..Len(items) : Some(Spot(items[i].spot).id) = Get(parameters, "spot_id", None)}

\* C33: a spot replacement keeps the number and the order of the items, every
\* item's times and transportation and every spot but one: the first item
\* whose spot has the target id refers to the first alternative afterwards;
\* with no such item or no alternative the items stay as they are.
C33_replacement_changes_one_reference ==
    [][\A parameters \in ReplaceParameters :
          ReplaceSpots(parameters)
          => LET before == The(date_plan).items
                 after == The(date_plan').items
                 hits == Matching(before, parameters)
                 alternatives == Get(parameters, "alternatives", <<>>)
             IN /\ Len(after) = Len(before)
                /\ \A i \in 1..Len(before) :
                      /\ after[i].start_time = before[i].start_time
                      /\ after[i].end_time = before[i].end_time
                      /\ after[i].transportation_to_next = before[i].transportation_to_next
                      /\ after[i].spot =
                            IF alternatives /= <<>> /\ i \in hits /\ \A j \in hits : i <= j
                            THEN alternatives[1] ELSE before[i].spot
                /\ (hits = {} \/ alternatives = <<>>) => after = before
      ]_<<vars, async_vars, planner_vars, confidence_vars>>

\* A plan after a replacement that refers to Hongdae twice: once from the
\* start and once in place of Gyeongbokgung.
C33_witness == After("spot_replacement") /\ Count(Placed, 4) = 2

\* =========================================================== confidence
\* parse_user_query on extractions that grow by one attribute at a time.
Extractions ==
    { Entities(location, budget, date, interests) :
        location \in {None, Some(<<>>), Some(<<" ">>), Some(<<"Seoul">>)},
        budget \in {None, Some(0), Some(10000)},
        date \in {None, Some(<<>>), Some(<<"naeil">>)},
        interests \in {{}, {"kape"}, {"kape", "munhwajae"}} }

\* The attributes an extraction carries; null and the empty list are absent.
Extracted(entities) ==
    {a \in {"location", "budget", "date"} : entities[a] /= None}
       \cup {a \in {"interests"} : entities[a] /= {}}

\* parse_user_query on an extraction that has one attribute more than the
\* one before.
ParseUserQuery(entities) ==
    /\ \E a \in {"location", "budget", "date", "interests"} :
          /\ a \notin Extracted(extracted)
          /\ entities \in {[extracted EXCEPT ![a] = v] : v \in {e[a] : e \in Extractions}}
          /\ a \in Extracted(entities)
    /\ extracted' = entities
    /\ confidence_score' = query_confidence_score(entities)
    /\ UNCHANGED <<vars, async_vars, planner_vars>>

ConfidenceNext == \E entities \in Extractions : ParseUserQuery(entities)

SpecConfidence == Init /\ [][ConfidenceNext]_<<vars, async_vars, planner_vars, confidence_vars>>
\* ------------------------------------------------------------------- C34
\* The confidence of an extraction that carries this attribute alone.
Weight(a) ==
    query_confidence_score(
        [NoEntities EXCEPT ![a] = IF a = "interests" THEN {"kape"}
                                  ELSE IF a = "budget" THEN Some(10000)
                                  ELSE Some(<<"Seoul">>)])

C35_awaiting_goes_with_the_state ==
    \A s \in DOMAIN store :
        /\ store[s].awaiting_user_input
              <=> store[s].current_state = "AWAITING_USER_SELECTION"
        /\ store[s].expected_input_type
              = IF store[s].awaiting_user_input THEN Some("SELECTION_REQUIRED") ELSE None

\* A conversation that awaited a selection, got one and presents its plan,
\* awaiting nothing.
C35_witness ==
    \E s \in DOMAIN store :
        /\ store[s].current_state = "PRESENTING_RESULTS"
        /\ "selected_spots" \in DOMAIN store[s].collected_data
        /\ ~store[s].awaiting_user_input
        /\ store[s].expected_input_type = None

\* ------------------------------------------------------------------- C36
\* The states a conversation is in once it has a plan.
PlanStates == {"PRESENTING_RESULTS", "MODIFYING_PLAN", "PLAN_CONFIRMED"}

\* C36: a stored conversation in PRESENTING_RESULTS, MODIFYING_PLAN or
\* PLAN_CONFIRMED has a current_plan and a non-empty selected_spots, every
\* selected spot is one of its candidate_spots, and every item of the plan
\* refers to a selected spot; so does every item of the plan the planner
\* makes of the selected spots under preferences that carry a budget.
C36_a_plan_state_has_its_plan ==
    \A s \in DOMAIN store :
        store[s].current_state \in PlanStates
        => LET selected == Get(store[s].collected_data, "selected_spots", <<>>)
               candidates == Get(store[s].collected_data, "candidate_spots", <<>>)
           IN /\ store[s].current_plan /= None
              /\ selected /= <<>>
              /\ Range(selected) \subseteq Range(candidates)
              /\ \A i \in 1..Len(The(store[s].current_plan).items) :
                    The(store[s].current_plan).items[i].spot \in Range(selected)
              /\ \A preferences \in PlanPreferences :
                    \A i \in 1..Len(create_date_plan(selected, preferences).items) :
                       create_date_plan(selected, preferences).items[i].spot
                          \in Range(selected)

\* A confirmed conversation with its selected spots and its plan.
C36_witness ==
    \E s \in DOMAIN store :
        /\ store[s].current_state = "PLAN_CONFIRMED"
        /\ Len(Get(store[s].collected_data, "selected_spots", <<>>)) >= 1
        /\ store[s].current_plan /= None

\* ------------------------------------------------------------------- C37
\* The states no handler ever names.
UnusedStates == {"PLANNING_IN_PROGRESS", "AWAITING_FEEDBACK", "HANDLING_QUESTIONS"}

\* How far along the dialog a state is; MODIFYING_PLAN and PLAN_CONFIRMED are
\* both its end.
Rank(state) ==
    IF state = "INITIAL_PLANNING" THEN 1
    ELSE IF state = "AWAITING_USER_SELECTION" THEN 2
    ELSE IF state = "PRESENTING_RESULTS" THEN 3
    ELSE IF state \in {"MODIFYING_PLAN", "PLAN_CONFIRMED"} THEN 4 ELSE 0

\* C37: no conversation, the manager's or the agent's, is ever in
\* PLANNING_IN_PROGRESS, AWAITING_FEEDBACK or HANDLING_QUESTIONS, and a
\* handle_user_input on a stored conversation leaves its state as it is or
\* moves it forward along INITIAL_PLANNING, AWAITING_USER_SELECTION,
\* PRESENTING_RESULTS, then MODIFYING_PLAN or PLAN_CONFIRMED.
C37_states_only_move_forward ==
    /\ [](/\ \A s \in DOMAIN store : store[s].current_state \notin UnusedStates
          /\ \A s \in DOMAIN conversation_memory :
                conversation_memory[s].current_state \notin UnusedStates)
    /\ [][TurnStepIn(store[last'.session].current_state)
          => LET before == store[last'.session].current_state
                 after == store'[last'.session].current_state
             IN after = before \/ Rank(before) < Rank(after)]_vars

\* A conversation that went all the way to MODIFYING_PLAN and stayed there
\* on its last turn.
C37_witness ==
    /\ LastWasTurn
    /\ last.dispatched = Some("MODIFYING_PLAN")
    /\ last.session \in DOMAIN store
    /\ store[last.session].current_state = "MODIFYING_PLAN"

\* ==================================================== overlapping calls
\* Two calls on one session: a handle_user_input (the older call) that took
\* the stored conversation (line 262) and is suspended in
\* _handle_initial_planning at the extractor or at the catalog, and a
\* start_conversation (the newer call) that stores a new conversation under
\* the same session id meanwhile.  The older call keeps its reference to the
\* conversation and its UserQuery; the manager looks the session id up again.
OverlapSession == "s1"

\* A call in flight: where it waits, its text and what the extractor is going
\* to make of it, the Conversation and the UserQuery it holds (None before it
\* took them) and whether the store has got another conversation since.
OverlapTask(pc, user_input, entities, conv, query, replaced) ==
    [pc |-> pc, user_input |-> user_input, entities |-> entities,
     conv |-> conv, query |-> query, replaced |-> replaced]

OverlapIdle == OverlapTask("idle", <<>>, NoEntities, None, None, FALSE)

OverlapInit ==
    /\ conversation_memory = <<>>
    /\ store = <<>>
    /\ initial_query = <<>>
    /\ last = Call("none", "s1", <<>>, FALSE, None, "returned", None, None, None,
                   FALSE, 0, FALSE)
    /\ tasks = [c \in {"older", "newer"} |-> OverlapIdle]
    /\ alone = <<>>
    /\ date_plan = None
    /\ plan_call = NoPlanCall
    /\ extracted = NoEntities
    /\ confidence_score = 0

\* Before the two calls: a start_conversation from call to return.
OverlapBefore(user_input, entities) ==
    /\ \A c \in DOMAIN tasks : tasks[c] = OverlapIdle
    /\ StartConversation(OverlapSession, user_input, entities)
    /\ UNCHANGED <<async_vars, planner_vars, confidence_vars>>

\* handle_user_input is called, takes the stored conversation and awaits the
\* extractor in _handle_initial_planning (line 350).
OverlapHandleCall(user_input, entities) ==
    /\ \A c \in DOMAIN tasks : tasks[c] = OverlapIdle
    /\ OverlapSession \in DOMAIN store
    /\ store[OverlapSession].current_state = "INITIAL_PLANNING"
    /\ tasks' = [tasks EXCEPT !["older"] =
                    OverlapTask("extract", user_input, entities,
                                Some(store[OverlapSession]),
                                Some(initial_query[OverlapSession]), FALSE)]
    /\ UNCHANGED <<vars, alone, planner_vars, confidence_vars>>

\* start_conversation is called while the older call is suspended, and
\* awaits the extractor (line 186).
OverlapStartCall(user_input, entities) ==
    /\ tasks["older"].pc \in {"extract", "search"}
    /\ tasks["newer"] = OverlapIdle
    /\ ~tasks["older"].replaced
    /\ tasks' = [tasks EXCEPT !["newer"] =
                    OverlapTask("start_extract", user_input, entities, None, None, FALSE)]
    /\ UNCHANGED <<vars, alone, planner_vars, confidence_vars>>

\* start_conversation resumes with the extraction and stores its new
\* conversations (lines 187-193); the older call is left with the objects it
\* took.  What follows in start_conversation (search, plan, the raise on
\* AWAITING_USER_INPUT) writes nothing the manager holds.
OverlapStartExtracted ==
    /\ tasks["newer"].pc = "start_extract"
    /\ UNCHANGED <<last, alone, planner_vars, confidence_vars>>
    /\ IF ~tasks["newer"].entities.is_dict
       THEN /\ tasks' = [tasks EXCEPT !["newer"].pc = "done"]
            /\ UNCHANGED <<conversation_memory, store, initial_query>>
       ELSE /\ store' = Put(store, OverlapSession, NewConversation)
            /\ conversation_memory' = Put(conversation_memory, OverlapSession, NewConversation)
            /\ initial_query' = Put(initial_query, OverlapSession,
                                    parse_user_query(tasks["newer"].entities))
            /\ tasks' = [tasks EXCEPT
                            !["newer"].pc = "done",
                            !["older"].conv = Some(store[OverlapSession]),
                            !["older"].query = Some(initial_query[OverlapSession]),
                            !["older"].replaced = TRUE]

\* The Turn handle_user_input makes of what its handler left (lines 268-276):
\* conversation.add_turn on the conversation the call holds, and
\* ConversationManager.update_turn on the one the store holds now.
OverlapTurn(conv, user_input, next_state) ==
    ConversationTurn(next_turn_id(conv), determine_interaction_type(conv, user_input),
                     Some(next_state))

\* _handle_initial_planning resumes with the extraction (lines 350-369, then
\* 384-388 and the Turn when the Query is not complete).
OverlapExtracted ==
    /\ tasks["older"].pc = "extract"
    /\ UNCHANGED <<conversation_memory, last, alone, planner_vars, confidence_vars>>
    /\ IF ~tasks["older"].entities.is_dict
       THEN /\ tasks' = [tasks EXCEPT !["older"].pc = "done"]
            /\ UNCHANGED <<store, initial_query>>
       ELSE \E merged \in {merge_query(IF tasks["older"].replaced
                                        THEN The(tasks["older"].query)
                                        ELSE initial_query[OverlapSession],
                                        parse_user_query(tasks["older"].entities))},
               conv \in {IF tasks["older"].replaced THEN The(tasks["older"].conv)
                         ELSE store[OverlapSession]} :
            /\ initial_query' = IF tasks["older"].replaced THEN initial_query
                                ELSE [initial_query EXCEPT ![OverlapSession] = merged]
            /\ IF is_complete(merged)
               THEN /\ tasks' = [tasks EXCEPT !["older"].pc = "search",
                                              !["older"].query = Some(merged)]
                    /\ UNCHANGED store
               ELSE \E turn \in {OverlapTurn(conv, tasks["older"].user_input,
                                             "INITIAL_PLANNING")} :
                    /\ tasks' = [tasks EXCEPT !["older"].pc = "done",
                                              !["older"].query = Some(merged),
                                              !["older"].conv = Some(add_turn(conv, turn))]
                    /\ store' = [store EXCEPT ![OverlapSession] =
                                    IF tasks["older"].replaced THEN update_turn(@, turn)
                                    ELSE update_turn(add_turn(@, turn), turn)]

\* _handle_initial_planning resumes with the spots (lines 371-383): the
\* candidates and the awaiting flag go to the conversation the call holds,
\* update_state goes by session id; then the Turn.
OverlapSearched ==
    /\ tasks["older"].pc = "search"
    /\ UNCHANGED <<conversation_memory, initial_query, last, alone, planner_vars, confidence_vars>>
    /\ \E conv \in {IF tasks["older"].replaced THEN The(tasks["older"].conv)
                     ELSE store[OverlapSession]},
          query \in {The(tasks["older"].query)} :
       \E c2 \in {set_awaiting_input(
                      update_collected_data(conv, "candidate_spots",
                          search_spots(The(query.location), get_interests(query),
                                       IntOrZero(query.budget))),
                      "SELECTION_REQUIRED")} :
       IF tasks["older"].replaced
       THEN \E turn \in {OverlapTurn(c2, tasks["older"].user_input,
                                     "AWAITING_USER_SELECTION")} :
            /\ tasks' = [tasks EXCEPT !["older"].pc = "done",
                                      !["older"].conv = Some(add_turn(c2, turn))]
            /\ store' = [store EXCEPT ![OverlapSession] =
                            update_turn(update_state(@, "AWAITING_USER_SELECTION"), turn)]
       ELSE \E c3 \in {update_state(c2, "AWAITING_USER_SELECTION")} :
            \E turn \in {OverlapTurn(c3, tasks["older"].user_input,
                                     "AWAITING_USER_SELECTION")} :
            /\ tasks' = [tasks EXCEPT !["older"].pc = "done",
                                      !["older"].conv = Some(update_turn(add_turn(c3, turn), turn))]
            /\ store' = [store EXCEPT ![OverlapSession] = update_turn(add_turn(c3, turn), turn)]

OverlapNext ==
    \/ \E in \in AsyncInputs : OverlapBefore(in[1], in[2])
    \/ \E in \in AsyncInputs : OverlapHandleCall(in[1], in[2])
    \/ \E in \in AsyncInputs : OverlapStartCall(in[1], in[2])
    \/ OverlapStartExtracted
    \/ OverlapExtracted
    \/ OverlapSearched

SpecOverlap == OverlapInit /\ [][OverlapNext]_<<vars, async_vars>>
\* ------------------------------------------------------------------- C38
\* The older call goes on after the store got another conversation.
OlderResumes ==
    /\ tasks["older"].replaced
    /\ tasks'["older"].pc /= tasks["older"].pc

\* C38: when a start_conversation replaced the stored conversation while a
\* handle_user_input was suspended, the older call leaves the replacement as
\* it is: it appends no Turn to it and sets no state of it.
C38_replacement_is_not_touched ==
    [][OlderResumes
       => /\ store'[OverlapSession].turns = store[OverlapSession].turns
          /\ store'[OverlapSession].current_state = store[OverlapSession].current_state
      ]_<<vars, async_vars>>

\* ------------------------------------------------------------------- C39
\* Every item but the last carries transportation, the last carries none, and
\* each transportation's distance is the distance from the item's spot to the
\* next item's spot.
Linked(items) ==
    \A i \in 1..Len(items) :
        IF i = Len(items) THEN items[i].transportation_to_next = None
        ELSE /\ items[i].transportation_to_next /= None
             /\ The(items[i].transportation_to_next).distance
                   = DistSq(items[i].spot, items[i + 1].spot)

\* The step is a budget adjustment, a pace adjustment or a spot replacement
\* of the caller's plan.
Modified ==
    /\ date_plan /= None
    /\ plan_call'.n = plan_call.n + 1
    /\ plan_call'.op \in {"budget_adjustment", "time_adjustment", "spot_replacement"}

\* C39: the items of a created plan are linked by their transportation, and
\* a budget adjustment, a pace adjustment or a spot replacement of a plan
\* whose items are linked leaves them linked.
C39_transportation_follows_the_items ==
    /\ [](After("create_date_plan") => Linked(The(date_plan).items))
    /\ [][(Modified /\ Linked(The(date_plan).items)) => Linked(The(date_plan').items)
        ]_<<vars, async_vars, planner_vars, confidence_vars>>

\* ------------------------------------------------------------------- C40
\* C40: a plan created from preferences that carry no budget has an item for
\* each of the spots handed in, up to five: no spot is dropped for its cost.
C40_no_budget_no_filter ==
    (After("create_date_plan") /\ "budget" \notin DOMAIN plan_call.user_preferences)
    => Len(The(date_plan).items) = Min(5, Len(plan_call.spots))

====
